---- MODULE Spec2Model ----
(***************************************************************************)
(* unicef_api: the dataflow fallback of get_unicef                         *)
(* (_fetch_indicator_with_fallback, _fetch_with_fallback), the             *)
(* post-production of get_unicef (column standardisation, period coercion, *)
(* exact-duplicate detection, metadata, missing-value filter, mrv, latest, *)
(* format, simplify) and the conversion of monthly periods.                *)
(*                                                                         *)
(* Indicator codes are sequences of characters, so that the prefix         *)
(* (split('_')[0] or the first two characters) and startswith() are        *)
(* computed as the code computes them.  A table is a record                *)
(* [cols, rows]: the set of column names and the sequence of rows, each    *)
(* row a function from the column names to cells.  A period or value cell  *)
(* is [kind, n] with kind "num" (the number n), "text" (n >= 0: the        *)
(* decimal text of n; n < 0: a text that is no number) or "nan"; a cell of *)
(* a metadata column is a "str" cell or "nan".  A stage that indexes a     *)
(* column the table does not have raises KeyError.                         *)
(*                                                                         *)
(* metadata.py: the cache directory of MetadataSync (current/, vintages/,  *)
(* sync_history.yaml), synced against a reference service that may fail,   *)
(* with its read operations and validate_dataframe.  A directory is a      *)
(* function from file names to contents; the clock counts ticks, a sync    *)
(* takes one tick, vintage dates are the zero-padded texts strftime        *)
(* writes; issue texts are sequences of characters.                        *)
(* SpecConcurrent runs sync_all in two processes on one cache directory,   *)
(* one step per operation on a file, with no lock between the steps.       *)
(***************************************************************************)
EXTENDS Integers, Sequences, FiniteSets, TLC

\* ------------------------------------------------------------------ bounds
\* longest indicator list of one get_unicef call
MaxIndicators == 2
\* most rows of one table answered by the fetcher
MaxRows == 1
\* most rows of a unioned table handed to the post-production steps (SpecPost)
MaxPostRows == 3
\* most rows of a unioned table handed to the option-driven stages (SpecPipe)
MaxPipeRows == 2
\* number of years the periods handed to the period conversion are drawn from (SpecPeriod)
MaxYears == 10

\* clock ticks of one day (the clock of the metadata cache counts ticks)
TicksPerDay == 2
\* days of one month of the calendar the vintage dates are written in
DaysPerMonth == 3
\* last tick of the clock (SpecSync)
MaxClock == 3
\* most sync_all runs on one cache directory (SpecSync)
MaxSyncs == 2
\* most sync_all runs on one cache directory when nothing else happens (SpecHistory)
MaxHistorySyncs == 52
\* most rows of a table handed to validate_dataframe (SpecValidate)
MaxValidateRows == 2
\* rows of a table handed to _apply_format
MaxFormatRows == 2

\* ------------------------------------------------------- values and tables
NONE == "NONE"
GLOBAL_DATAFLOW == "GLOBAL_DATAFLOW"

Num(k) == [kind |-> "num", n |-> k]
Text(k) == [kind |-> "text", n |-> k]
NaN == [kind |-> "nan", n |-> 0]

\* pd.DataFrame()
EmptyTable == [cols |-> {}, rows |-> <<>>]

\* df.empty
IsEmpty(df) == Len(df.rows) = 0

\* the elements of a list
Range(s) == {s[i] : i \in DOMAIN s}

\* ---------------------------------------------------------- indicator codes
CME_MRM0 == <<"C", "M", "E", "_", "M", "R", "M", "0">>
NT_ANT_WHZ_NE2 == <<"N", "T", "_", "A", "N", "T", "_", "W", "H", "Z", "_", "N", "E", "2">>
ED_MAT_L2 == <<"E", "D", "_", "M", "A", "T", "_", "L", "2">>
PT_F_15_49_FGM == <<"P", "T", "_", "F", "_", "1", "5", "-", "4", "9", "_", "F", "G", "M">>

\* the indicator codes a request is drawn from
IndicatorCodes == {CME_MRM0, NT_ANT_WHZ_NE2, ED_MAT_L2, PT_F_15_49_FGM}

\* the "dataflow" entry of each of these codes in COMMON_INDICATORS
COMMON_INDICATORS ==
    (CME_MRM0 :> "CME") @@ (NT_ANT_WHZ_NE2 :> "NUTRITION") @@
    (ED_MAT_L2 :> "EDUCATION_UIS_SDG") @@ (PT_F_15_49_FGM :> "PT_FGM")

\* indicator_code.startswith(p)
StartsWith(s, p) == Len(s) >= Len(p) /\ SubSeq(s, 1, Len(p)) = p

get_dataflow_for_indicator(indicator_code) ==
    IF indicator_code \in DOMAIN COMMON_INDICATORS THEN COMMON_INDICATORS[indicator_code]
    ELSE IF StartsWith(indicator_code, <<"C", "M", "E", "_">>) THEN "CME"
    ELSE IF StartsWith(indicator_code, <<"N", "T", "_">>) THEN "NUTRITION"
    ELSE IF StartsWith(indicator_code, <<"E", "D", "_">>) THEN "EDUCATION_UIS_SDG"
    ELSE IF StartsWith(indicator_code, <<"I", "M", "_">>) THEN "IMMUNISATION"
    ELSE IF StartsWith(indicator_code, <<"H", "V", "A", "_">>) THEN "HIV_AIDS"
    ELSE IF StartsWith(indicator_code, <<"W", "S", "_">>) THEN "WASH_HOUSEHOLDS"
    ELSE IF StartsWith(indicator_code, <<"M", "N", "C", "H", "_">>) THEN "MNCH"
    ELSE IF StartsWith(indicator_code, <<"P", "T", "_">>) THEN "PT"
    ELSE IF StartsWith(indicator_code, <<"E", "C", "D", "_">>) THEN "ECD"
    ELSE IF StartsWith(indicator_code, <<"P", "V", "_">>) THEN "CHLD_PVTY"
    ELSE GLOBAL_DATAFLOW

\* ------------------------------------------------------ the candidate list
DATAFLOW_ALTERNATIVES ==
    (<<"E", "D">> :> <<"EDUCATION_UIS_SDG", "EDUCATION">>) @@
    (<<"P", "T">> :> <<"PT", "PT_CM", "PT_FGM">>) @@
    (<<"P", "V">> :> <<"CHLD_PVTY", "GLOBAL_DATAFLOW">>) @@
    (<<"N", "T">> :> <<"NUTRITION", "GLOBAL_DATAFLOW">>)

\* x in list
InSeq(x, s) == \E i \in 1..Len(s) : s[i] = x

\* index of the first '_' of s, 0 when there is none
FirstSep(s) ==
    IF InSeq("_", s) THEN CHOOSE i \in 1..Len(s) : s[i] = "_" /\ \A j \in 1..(i - 1) : s[j] # "_"
    ELSE 0

\* indicator_code.split('_')[0] if '_' in indicator_code else indicator_code[:2]
Prefix(indicator_code) ==
    IF InSeq("_", indicator_code) THEN SubSeq(indicator_code, 1, FirstSep(indicator_code) - 1)
    ELSE SubSeq(indicator_code, 1, IF Len(indicator_code) < 2 THEN Len(indicator_code) ELSE 2)

\* for alt in alts: if alt not in dataflows_to_try: dataflows_to_try.append(alt)
RECURSIVE AppendNew(_, _)
AppendNew(list, alts) ==
    IF alts = <<>> THEN list
    ELSE AppendNew(IF InSeq(Head(alts), list) THEN list ELSE Append(list, Head(alts)), Tail(alts))

\* the loop over the prefix alternatives without the 'not in' test
DataflowsToTryRepeating(indicator_code, dataflow) ==
    LET prefix == Prefix(indicator_code)
        alts == IF prefix \in DOMAIN DATAFLOW_ALTERNATIVES THEN DATAFLOW_ALTERNATIVES[prefix] ELSE <<>>
    IN AppendNew(<<dataflow>> \o alts, <<GLOBAL_DATAFLOW>>)

\* the candidate list without the prefix alternatives
DataflowsToTryNoAlternatives(indicator_code, dataflow) ==
    AppendNew(<<dataflow>>, <<GLOBAL_DATAFLOW>>)

\* dataflows_to_try of _fetch_indicator_with_fallback
DataflowsToTry(indicator_code, dataflow) ==
    LET prefix == Prefix(indicator_code)
        withAlts == IF prefix \in DOMAIN DATAFLOW_ALTERNATIVES
                    THEN AppendNew(<<dataflow>>, DATAFLOW_ALTERNATIVES[prefix])
                    ELSE <<dataflow>>
    IN AppendNew(withAlts, <<GLOBAL_DATAFLOW>>)

\* ------------------------------------------------------------ the fetcher
\* the failures client.fetch_indicator raises
NOT_FOUND == "SDMXNotFoundError"
OtherErrors == {"SDMXBadRequestError", "SDMXServerError", "SDMXAuthenticationError",
                "SDMXForbiddenError", "SDMXUnavailableError"}

\* columns of a tidy table and of a raw one (return_raw)
TidyCols == {"indicator_code", "country_code", "period", "value"}
RawCols == {"INDICATOR", "REF_AREA", "TIME_PERIOD", "OBS_VALUE"}

\* one observation of indicator ind, in the tidy or the raw columns
MkRow(tidy, ind, iso, period, value) ==
    IF tidy
    THEN [c \in TidyCols |-> CASE c = "indicator_code" -> ind [] c = "country_code" -> iso
                                [] c = "period" -> period [] c = "value" -> value]
    ELSE [c \in RawCols |-> CASE c = "INDICATOR" -> ind [] c = "REF_AREA" -> iso
                               [] c = "TIME_PERIOD" -> period [] c = "OBS_VALUE" -> value]

\* all sequences over S of length lo..hi
SeqsOf(S, lo, hi) == UNION {[1..k -> S] : k \in lo..hi}

\* the rows the fetcher may answer for an indicator: one observation, a number in a tidy
\* table and the text of the API in a raw one (richer tables are drawn in SpecPost)
FetcherRows(ind, tidy) ==
    {MkRow(tidy, ind, "ALB", IF tidy THEN Num(2020) ELSE Text(2020), Num(10))}

\* what one call of client.fetch_indicator may produce: a table (possibly empty) or a failure
FetcherOutcomes(ind, tidy) ==
    {[error |-> NONE, df |-> EmptyTable]}
    \cup {[error |-> NONE, df |-> [cols |-> IF tidy THEN TidyCols ELSE RawCols, rows |-> r]] :
             r \in SeqsOf(FetcherRows(ind, tidy), 1, MaxRows)}
    \cup {[error |-> e, df |-> EmptyTable] : e \in OtherErrors \cup {NOT_FOUND}}

\* ------------------------------------------- _fetch_indicator_with_fallback
\* a handler that takes every failure for a wrong dataflow guess
IsNotFoundAnyError(e) == e # NONE

\* except SDMXNotFoundError
IsNotFound(e) == e = NOT_FOUND

\* a loop that stops on the first answer without failure, empty or not
ReturnsTableAlways(df) == TRUE

\* a loop that never stops on data
ReturnsTableNever(df) == FALSE

\* if not df.empty: return df
ReturnsTable(df) == ~IsEmpty(df)

\* a fetch that gives up the indicator on a failure and goes on with the next one
ReraiseSkippingIndicator(e) == [raised |-> NONE, pc |-> "returned"]

\* 'except Exception as e: ... raise': the failure leaves _fetch_indicator_with_fallback,
\* and _fetch_with_fallback and get_unicef, which do not catch it
Reraise(e) == [raised |-> e, pc |-> "done"]

\* the end of the loop raising the last not-found failure
AllFailedRaising(err) == [raised |-> err, ret |-> EmptyTable]

\* after the loop: return pd.DataFrame(), whatever last_error is
AllFailed(err) == [raised |-> NONE, ret |-> EmptyTable]

\* ---------------------------------------------------- _fetch_with_fallback
\* rows of df over the columns cols, NaN where df has no such column
Reindex(df, cols) ==
    [i \in 1..Len(df.rows) |-> [c \in cols |-> IF c \in df.cols THEN df.rows[i][c] ELSE NaN]]

RECURSIVE ConcatRows(_, _)
ConcatRows(dfs, cols) ==
    IF dfs = <<>> THEN <<>> ELSE Reindex(Head(dfs), cols) \o ConcatRows(Tail(dfs), cols)

RECURSIVE ConcatRowsReversed(_, _)
ConcatRowsReversed(dfs, cols) ==
    IF dfs = <<>> THEN <<>> ELSE ConcatRowsReversed(Tail(dfs), cols) \o Reindex(Head(dfs), cols)

\* a concatenation that puts the later tables first
ConcatReversed(dfs) ==
    LET cols == UNION {dfs[i].cols : i \in 1..Len(dfs)}
    IN [cols |-> cols, rows |-> ConcatRowsReversed(dfs, cols)]

\* pd.concat(dfs, ignore_index=True)
Concat(dfs) ==
    LET cols == UNION {dfs[i].cols : i \in 1..Len(dfs)}
    IN [cols |-> cols, rows |-> ConcatRows(dfs, cols)]

\* ------------------------------------------------ get_unicef: first steps
\* col_mapping, in the order the loop visits it
col_mapping == <<
    <<"REF_AREA", "iso3">>, <<"country_code", "iso3">>,
    <<"INDICATOR", "indicator">>, <<"indicator_code", "indicator">>,
    <<"TIME_PERIOD", "period">>, <<"year", "period">>,
    <<"OBS_VALUE", "value">>, <<"country_name", "country">> >>

\* result.rename(columns={old: new})
Rename(df, old, new) ==
    LET cols == (df.cols \ {old}) \cup {new}
    IN [cols |-> cols,
        rows |-> [i \in 1..Len(df.rows) |->
                     [c \in cols |-> IF c = new THEN df.rows[i][old] ELSE df.rows[i][c]]]]

\* for old, new in col_mapping.items(): if old in columns and new not in columns: rename
RECURSIVE RenameAll(_, _)
RenameAll(df, mapping) ==
    IF mapping = <<>> THEN df
    ELSE LET old == Head(mapping)[1]
             new == Head(mapping)[2]
         IN RenameAll(IF old \in df.cols /\ new \notin df.cols THEN Rename(df, old, new) ELSE df,
                      Tail(mapping))

\* pd.to_numeric(cell, errors='coerce')
ToNumeric(cell) ==
    IF cell.kind = "num" THEN cell
    ELSE IF cell.kind = "text" /\ cell.n >= 0 THEN Num(cell.n)
    ELSE NaN

\* result['period'] = pd.to_numeric(result['period'], errors='coerce')
CoercePeriod(df) ==
    IF "period" \in df.cols
    THEN [df EXCEPT !.rows = [i \in 1..Len(df.rows) |->
                                 [df.rows[i] EXCEPT !["period"] = ToNumeric(df.rows[i]["period"])]]]
    ELSE df

\* the table the duplicate check looks at
Standardize(df) == CoercePeriod(RenameAll(df, col_mapping))

\* drop_duplicates(keep='last')
DropDuplicatesKeepLast(rows) ==
    LET keep == {i \in 1..Len(rows) : \A j \in (i + 1)..Len(rows) : rows[j] # rows[i]}
        F[k \in 0..Len(rows)] ==
            IF k = 0 THEN <<>> ELSE IF k \in keep THEN Append(F[k - 1], rows[k]) ELSE F[k - 1]
    IN F[Len(rows)]

\* drop_duplicates(keep='first')
DropDuplicates(rows) ==
    LET F[k \in 0..Len(rows)] ==
            IF k = 0 THEN <<>>
            ELSE IF InSeq(rows[k], F[k - 1]) THEN F[k - 1] ELSE Append(F[k - 1], rows[k])
    IN F[Len(rows)]

\* a count of the rows that have a copy, the first copy included
NDuplicatesAllCopies(df) ==
    Cardinality({i \in 1..Len(df.rows) : \E j \in 1..Len(df.rows) : j # i /\ df.rows[j] = df.rows[i]})

\* n_duplicates = n_before - result.drop_duplicates(keep='first').shape[0]
NDuplicates(df) == Len(df.rows) - Len(DropDuplicates(df.rows))

\* ------------------------------------- get_unicef: the option-driven stages
\* a text cell of a metadata column
Str(s) == [kind |-> "str", n |-> 0, s |-> s]

\* what a stage hands back: the table, or the failure it raised
Ok(df) == [err |-> NONE, df |-> df]
Raises(e, df) == [err |-> e, df |-> df]

\* the entries of the country codes of the model in _get_country_regions(),
\* _get_income_groups() and _get_continents(): XKX has an income group only
get_country_regions == "ALB" :> "Europe and Central Asia"
get_income_groups == ("ALB" :> "Upper middle income") @@ ("XKX" :> "Upper middle income")
get_continents == "ALB" :> "Europe"

\* the registry entries get_indicator_info answers from, None for every other code
indicator_registry ==
    (CME_MRM0 :> [name |-> "Neonatal mortality rate", category |-> "CME"]) @@
    (NT_ANT_WHZ_NE2 :> [name |-> "Wasting prevalence", category |-> "NUTRITION"])

get_indicator_info(ind) ==
    IF ind \in DOMAIN indicator_registry THEN <<indicator_registry[ind]>> ELSE <<>>

\* df[dst] = df[src].map(lookup)
MapColumn(df, src, dst, lookup) ==
    LET cols == df.cols \cup {dst}
    IN [cols |-> cols,
        rows |-> [i \in 1..Len(df.rows) |->
                     [c \in cols |->
                         IF c # dst THEN df.rows[i][c]
                         ELSE IF df.rows[i][src] \in DOMAIN lookup
                              THEN Str(lookup[df.rows[i][src]]) ELSE NaN]]]

\* the lookups _add_country_metadata applies, in its order
CountryLookups ==
    << <<"region", get_country_regions>>, <<"income_group", get_income_groups>>,
       <<"continent", get_continents>> >>

RECURSIVE AddCountryColumns(_, _, _)
AddCountryColumns(df, metadata_list, lookups) ==
    IF lookups = <<>> THEN Ok(df)
    ELSE IF Head(lookups)[1] \notin metadata_list
    THEN AddCountryColumns(df, metadata_list, Tail(lookups))
    ELSE IF "country_code" \notin df.cols THEN Raises("KeyError", df)
    ELSE AddCountryColumns(MapColumn(df, "country_code", Head(lookups)[1], Head(lookups)[2]),
                           metadata_list, Tail(lookups))

add_country_metadata(df, metadata_list) == AddCountryColumns(df, metadata_list, CountryLookups)

\* df.loc[df['indicator_code'] == ind, col] = info.get(key, '') for every unique indicator
\* that has an entry: the column exists once one indicator has one, NaN in the other rows
SetIndicatorColumn(df, col, key) ==
    LET known(i) == get_indicator_info(df.rows[i]["indicator_code"]) # <<>>
        cols == df.cols \cup {col}
    IN IF \A i \in 1..Len(df.rows) : ~known(i) THEN df
       ELSE [cols |-> cols,
             rows |-> [i \in 1..Len(df.rows) |->
                          [c \in cols |->
                              IF c # col \/ (~known(i) /\ col \in df.cols) THEN df.rows[i][c]
                              ELSE IF known(i)
                                   THEN Str(get_indicator_info(df.rows[i]["indicator_code"])[1][key])
                                   ELSE NaN]]]

add_indicator_metadata(df, metadata_list) ==
    IF "indicator_code" \notin df.cols THEN Ok(df)
    ELSE LET named == IF "indicator_name" \in metadata_list
                      THEN SetIndicatorColumn(df, "indicator_name", "name") ELSE df
         IN Ok(IF "indicator_category" \in metadata_list
               THEN SetIndicatorColumn(named, "indicator_category", "category") ELSE named)

\* result.dropna(subset=[col])
DropNa(df, col) == [df EXCEPT !.rows = SelectSeq(df.rows, LAMBDA r : r[col] # NaN)]

\* the columns whose cells may be missing
NullableCols == {"period", "year", "value", "region", "income_group", "continent",
                 "indicator_name", "indicator_category"}

\* pd.isna of the cell of column c
IsMissing(r, c) == c \in NullableCols /\ r[c] = NaN

\* the country codes and the indicator codes in ascending order
CountryOrder == <<"ALB", "XKX">>
IndicatorOrder == <<CME_MRM0, ED_MAT_L2, NT_ANT_WHZ_NE2, PT_F_15_49_FGM>>

\* position of x in the sequence s
IndexOf(s, x) == CHOOSE i \in 1..Len(s) : s[i] = x

\* a < b, and a == b, on the cells of column c
CellBefore(c, a, b) ==
    IF c = "country_code" THEN IndexOf(CountryOrder, a) < IndexOf(CountryOrder, b)
    ELSE IF c = "indicator_code" THEN IndexOf(IndicatorOrder, a) < IndexOf(IndicatorOrder, b)
    ELSE a # NaN /\ b # NaN /\ a.n < b.n

\* r before s under sort_values(by, ascending): the first key that differs decides, a missing
\* cell goes last in either direction
RECURSIVE RowBefore(_, _, _, _)
RowBefore(r, s, by, ascending) ==
    IF by = <<>> THEN FALSE
    ELSE LET c == Head(by)
         IN IF r[c] = s[c] THEN RowBefore(r, s, Tail(by), Tail(ascending))
            ELSE IF IsMissing(r, c) THEN FALSE
            ELSE IF IsMissing(s, c) THEN TRUE
            ELSE IF Head(ascending) THEN CellBefore(c, r[c], s[c]) ELSE CellBefore(c, s[c], r[c])

\* df.sort_values(by, ascending=ascending): rows with equal keys keep their order
SortValues(rows, by, ascending) ==
    LET n == Len(rows)
        pos(i) == 1 + Cardinality({j \in 1..n :
                        \/ RowBefore(rows[j], rows[i], by, ascending)
                        \/ (~RowBefore(rows[i], rows[j], by, ascending) /\ j < i)})
    IN [k \in 1..n |-> rows[CHOOSE i \in 1..n : pos(i) = k]]

\* r and s fall in the same group of groupby(keys)
SameGroup(r, s, keys) == \A c \in keys : r[c] = s[c]

\* df.groupby(keys).head(n): the first n rows of each group, in the order of df
GroupHead(rows, keys, n) ==
    LET keep == {i \in 1..Len(rows) :
                    Cardinality({j \in 1..(i - 1) : SameGroup(rows[j], rows[i], keys)}) < n}
        F[k \in 0..Len(rows)] ==
            IF k = 0 THEN <<>> ELSE IF k \in keep THEN Append(F[k - 1], rows[k]) ELSE F[k - 1]
    IN F[Len(rows)]

apply_mrv(df, n) ==
    LET keys == IF "indicator_code" \in df.cols
                THEN <<"country_code", "indicator_code">> ELSE <<"country_code">>
    IN IF "country_code" \notin df.cols \/ "year" \notin df.cols THEN Raises("KeyError", df)
       ELSE Ok([df EXCEPT !.rows =
                   GroupHead(SortValues(df.rows, keys \o <<"year">>,
                                        [i \in 1..(Len(keys) + 1) |-> i <= Len(keys)]),
                             {keys[i] : i \in 1..Len(keys)}, n)])

\* groupby(keys)['year'].idxmax(): for each group the first row of the greatest year, the
\* groups in ascending key order; 0 for a group whose years are all missing
IdxMax(rows, keys) ==
    LET by == [i \in 1..Len(keys) |-> keys[i]]
        ks == {keys[i] : i \in 1..Len(keys)}
        first == {i \in 1..Len(rows) : \A j \in 1..(i - 1) : ~SameGroup(rows[j], rows[i], ks)}
        best(g) ==
            LET grp == {i \in 1..Len(rows) : SameGroup(rows[i], rows[g], ks) /\ rows[i]["year"] # NaN}
            IN IF grp = {} THEN 0
               ELSE CHOOSE i \in grp :
                        /\ \A j \in grp : ~CellBefore("year", rows[i]["year"], rows[j]["year"])
                        /\ \A j \in grp : rows[j]["year"] = rows[i]["year"] => i <= j
        order == SortValues([k \in 1..Cardinality(first) |->
                                rows[CHOOSE i \in first : Cardinality({j \in first : j < i}) = k - 1]],
                            by, [i \in 1..Len(by) |-> TRUE])
    IN [k \in 1..Len(order) |->
           best(CHOOSE i \in first : SameGroup(rows[i], order[k], ks))]

apply_latest(df) ==
    LET kept == IF "value" \in df.cols THEN DropNa(df, "value") ELSE df
        keys == IF "indicator_code" \in df.cols
                THEN <<"country_code", "indicator_code">> ELSE <<"country_code">>
        idx == IdxMax(kept.rows, keys)
    IN IF "country_code" \notin df.cols \/ "year" \notin df.cols THEN Raises("KeyError", df)
       ELSE IF \E k \in 1..Len(idx) : idx[k] = 0 THEN Raises("KeyError", kept)
       ELSE Ok([kept EXCEPT !.rows = [k \in 1..Len(idx) |-> kept.rows[idx[k]]]])

\* the characters of an indicator code as one column name
RECURSIVE CodeName(_)
CodeName(code) == IF code = <<>> THEN "" ELSE Head(code) \o CodeName(Tail(code))

\* the name of the column pivot_table makes for the value v of the column col
PivotColumnName(col, v) == IF col = "indicator_code" THEN CodeName(v) ELSE ToString(v.n)

\* df.pivot_table(index=index_cols, columns=col, values='value', aggfunc='first')
\* .reset_index(): a row whose key has a missing cell belongs to no group, the cell of a
\* group is its first value that is not missing, a group without one is dropped, the rows
\* come in ascending key order
PivotTable(df, index_cols, col) ==
    LET by == SelectSeq(<<"country_code", "indicator_code", "year">>, LAMBDA c : c \in index_cols)
        grouped == {i \in 1..Len(df.rows) :
                       /\ \A c \in index_cols \cup {col} : ~IsMissing(df.rows[i], c)
                       /\ df.rows[i]["value"] # NaN}
        key(i) == [c \in index_cols |-> df.rows[i][c]]
        firstOfKey == {i \in grouped : \A j \in grouped : key(j) = key(i) => i <= j}
        colvals == {df.rows[i][col] : i \in grouped}
        cols == index_cols \cup {PivotColumnName(col, v) : v \in colvals}
        cell(i, c) ==
            IF c \in index_cols THEN df.rows[i][c]
            ELSE LET v == CHOOSE w \in colvals : PivotColumnName(col, w) = c
                     grp == {j \in grouped : key(j) = key(i) /\ df.rows[j][col] = v}
                 IN IF grp = {} THEN NaN
                    ELSE df.rows[CHOOSE j \in grp : \A k \in grp : j <= k]["value"]
        unsorted == [k \in 1..Cardinality(firstOfKey) |->
                        LET i == CHOOSE i \in firstOfKey : Cardinality({j \in firstOfKey : j < i}) = k - 1
                        IN [c \in cols |-> cell(i, c)]]
    IN [cols |-> cols, rows |-> SortValues(unsorted, by, [i \in 1..Len(by) |-> TRUE])]

\* df['indicator_code'].nunique()
NUniqueIndicators(df) == Cardinality({df.rows[i]["indicator_code"] : i \in 1..Len(df.rows)})

\* the metadata columns that join the index of a pivot when present
PivotMetadataCols == {"region", "income_group", "continent"}

\* a _apply_format that pivots whatever the number of indicators
WideIndicatorsNoOpNever(df) == FALSE

\* 'if 'indicator_code' not in df.columns or df['indicator_code'].nunique() == 1': the
\* warning is printed and df is returned as it is
WideIndicatorsNoOp(df) == "indicator_code" \notin df.cols \/ NUniqueIndicators(df) = 1

apply_format(df, format) ==
    LET several == "indicator_code" \in df.cols /\ NUniqueIndicators(df) > 1
        needed(index_cols, col) == index_cols \cup {col, "value"}
    IN IF format = "wide"
       THEN LET index_cols == {"country_code"} \cup (df.cols \cap ({"country_name"} \cup PivotMetadataCols))
                                  \cup (IF several THEN {"indicator_code"} ELSE {})
            IN IF ~(needed(index_cols, "year") \subseteq df.cols) THEN Raises("KeyError", df)
               ELSE Ok(PivotTable(df, index_cols, "year"))
       ELSE IF format = "wide_indicators"
       THEN IF WideIndicatorsNoOp(df) THEN Ok(df)
            ELSE LET index_cols == {"country_code", "year"}
                                       \cup (df.cols \cap ({"country_name"} \cup PivotMetadataCols))
                 IN IF ~(needed(index_cols, "indicator_code") \subseteq df.cols)
                    THEN Raises("KeyError", df)
                    ELSE Ok(PivotTable(df, index_cols, "indicator_code"))
       ELSE Ok(df)

\* df[available]
Project(df, available) ==
    [cols |-> available, rows |-> [i \in 1..Len(df.rows) |-> [c \in available |-> df.rows[i][c]]]]

\* the columns _simplify_columns looks for
essential == {"country_code", "country_name", "indicator_code", "year", "value"}
kept_metadata == {"region", "income_group", "continent", "indicator_name"}

simplify_columns(df, format) ==
    IF format = "long" THEN Project(df, df.cols \cap (essential \cup kept_metadata)) ELSE df

\* --------------------------------------- get_unicef: the post-production run
\* the stages in the order get_unicef runs them, the duplicate check after the filter
StageOrderFilterFirst ==
    <<"normalize", "dropna", "duplicates", "metadata", "mrv", "latest", "format", "simplify">>

\* the stages of get_unicef in the order of its statements
StageOrder ==
    <<"normalize", "duplicates", "metadata", "dropna", "mrv", "latest", "format", "simplify">>

\* the condition under which get_unicef enters a stage; o holds its options
Active(stage, df, o) ==
    CASE stage = "normalize" -> TRUE
      [] stage = "duplicates" -> Len(df.rows) > 0
      [] stage = "metadata" -> o.add_metadata # {} /\ "iso3" \in df.cols
      [] stage = "dropna" -> o.dropna /\ "value" \in df.cols
      [] stage = "mrv" -> o.mrv > 0 /\ "iso3" \in df.cols /\ "period" \in df.cols
      [] stage = "latest" -> o.latest /\ "iso3" \in df.cols /\ "period" \in df.cols
      [] stage = "format" -> o.format # "long" /\ "iso3" \in df.cols
      [] stage = "simplify" -> o.simplify

\* the body of a stage
RunStage(stage, df, o) ==
    CASE stage = "normalize" -> Ok(Standardize(df))
      [] stage = "duplicates" ->
            IF NDuplicates(df) = 0 THEN Ok(df)
            ELSE IF ~o.ignore_duplicates THEN Raises("ValueError", df)
            ELSE Ok([df EXCEPT !.rows = DropDuplicates(df.rows)])
      [] stage = "metadata" ->
            LET c == add_country_metadata(df, o.add_metadata)
            IN IF c.err # NONE THEN c ELSE add_indicator_metadata(c.df, o.add_metadata)
      [] stage = "dropna" -> Ok(DropNa(df, "value"))
      [] stage = "mrv" -> apply_mrv(df, o.mrv)
      [] stage = "latest" -> apply_latest(df)
      [] stage = "format" -> apply_format(df, o.format)
      [] stage = "simplify" -> Ok(simplify_columns(df, o.format))

\* get_unicef from the column standardisation to its return: the stages that are active run
\* in order until one raises; st holds the table, the failure, n_duplicates, whether the
\* warning was emitted and the stages entered so far with the number of rows each received
RECURSIVE RunStages(_, _, _)
RunStages(st, stages, o) ==
    IF stages = <<>> \/ st.err # NONE THEN st
    ELSE IF ~Active(Head(stages), st.df, o) THEN RunStages(st, Tail(stages), o)
    ELSE LET s == Head(stages)
             r == RunStage(s, st.df, o)
         IN RunStages([df |-> r.df,
                       err |-> r.err,
                       n_duplicates |-> IF s = "duplicates" THEN NDuplicates(st.df)
                                        ELSE st.n_duplicates,
                       warned |-> IF s = "duplicates" THEN NDuplicates(st.df) > 0 /\ r.err = NONE
                                  ELSE st.warned,
                       trace |-> Append(st.trace, [stage |-> s, rows_in |-> Len(st.df.rows)])],
                      Tail(stages), o)

\* ------------------------------------------------- the period conversion
\* the year of the documented examples
BaseYear == 2020

Digits == <<"0", "1", "2", "3", "4", "5", "6", "7", "8", "9">>

\* int(text) of a text of decimal digits
RECURSIVE ParseInt(_)
ParseInt(text) ==
    IF text = <<>> THEN 0
    ELSE 10 * ParseInt(SubSeq(text, 1, Len(text) - 1)) + (IndexOf(Digits, text[Len(text)]) - 1)

\* the decimal digits of n, at least width of them
RECURSIVE FormatInt(_, _)
FormatInt(n, width) ==
    IF n < 10 /\ width <= 1 THEN <<Digits[n + 1]>>
    ELSE FormatInt(n \div 10, width - 1) \o <<Digits[(n % 10) + 1]>>

\* TIME_PERIOD as the API writes it: "2020" for a year, "2020-03" for a month
TimePeriodText(year, month) ==
    IF month = 0 THEN FormatInt(year, 4) ELSE FormatInt(year, 4) \o <<"-">> \o FormatInt(month, 2)

\* index of the first '-' of text, 0 when there is none
FirstDash(text) ==
    IF InSeq("-", text)
    THEN CHOOSE i \in 1..Len(text) : text[i] = "-" /\ \A j \in 1..(i - 1) : text[j] # "-"
    ELSE 0

\* the year and the month a TIME_PERIOD text names, month 0 for an annual period
PeriodYear(text) ==
    ParseInt(IF FirstDash(text) = 0 THEN text ELSE SubSeq(text, 1, FirstDash(text) - 1))
PeriodMonth(text) ==
    IF FirstDash(text) = 0 THEN 0 ELSE ParseInt(SubSeq(text, FirstDash(text) + 1, Len(text)))

\* decimal_year = year + month/12 as the exact fraction num/den; an annual period is the
\* integer year
DecimalYear(text) == [num |-> 12 * PeriodYear(text) + PeriodMonth(text), den |-> 12]

\* ---------------------------------------------- metadata.py: time and dates
\* datetime.utcnow().strftime('%Y-%m-%d') at tick t
VintageDate(t) ==
    LET day == t \div TicksPerDay
    IN  FormatInt(BaseYear, 4) \o <<"-">> \o FormatInt(1 + (day \div DaysPerMonth), 2)
            \o <<"-">> \o FormatInt(1 + (day % DaysPerMonth), 2)

\* a < b for the str of a date: '-' sorts before the digits
RECURSIVE StrLess(_, _)
StrLess(a, b) ==
    IF b = <<>> THEN FALSE
    ELSE IF a = <<>> THEN TRUE
    ELSE IF a[1] # b[1]
         THEN IndexOf(<<"-">> \o Digits, a[1]) < IndexOf(<<"-">> \o Digits, b[1])
    ELSE StrLess(Tail(a), Tail(b))

\* sorted(names, reverse=True)
RECURSIVE SortedReverse(_)
SortedReverse(names) ==
    IF names = {} THEN <<>>
    ELSE LET top == CHOOSE x \in names : \A y \in names : ~StrLess(x, y)
         IN  <<top>> \o SortedReverse(names \ {top})

\* ------------------------------------- metadata.py: the reference catalogs
\* an answer of the reference service, and its failure (RequestException after the
\* retries of _fetch_xml, or a body ET.fromstring rejects)
Served(body) == [ok |-> TRUE, body |-> body]
Failing == [ok |-> FALSE]

codelist_ids ==
    <<"CL_REF_AREA", "CL_SEX", "CL_AGE", "CL_WEALTH_QUINTILE", "CL_RESIDENCE", "CL_UNIT_MEASURE">>

\* the codes of a codelist the service serves
CodelistCodes(cl_id) ==
    IF cl_id = "CL_REF_AREA" THEN {<<"A", "L", "B">>, <<"X", "K", "X">>} ELSE {<<"_", "T">>}

\* the codelist answers the service is drawn from: all served, all failing
CodelistsServed == [cl_id \in Range(codelist_ids) |-> Served(CodelistCodes(cl_id))]
CodelistsFailing == [cl_id \in Range(codelist_ids) |-> Failing]

\* what sync_all reads from outside the cache directory: the answers of the reference
\* service (the dataflow listing id -> version, the codelists) and the installed
\* COMMON_INDICATORS.  The services a cache is synced against: every subset of
\* {dataflows, codelists} failing, and a later release of the listing and of the
\* configuration
Services ==
    { [dataflows |-> Served("CME" :> "1.0"), codelists |-> CodelistsServed,
       config |-> {CME_MRM0}],
      [dataflows |-> Failing, codelists |-> CodelistsServed, config |-> {CME_MRM0}],
      [dataflows |-> Served("CME" :> "1.0"), codelists |-> CodelistsFailing,
       config |-> {CME_MRM0}],
      [dataflows |-> Failing, codelists |-> CodelistsFailing,
       config |-> {CME_MRM0, NT_ANT_WHZ_NE2}],
      [dataflows |-> Served(("CME" :> "2.0") @@ ("NUTRITION" :> "1.0")),
       codelists |-> CodelistsServed, config |-> {CME_MRM0, NT_ANT_WHZ_NE2}] }

\* ------------------------------------------ metadata.py: the cache directory
\* A directory is a function from the names of its files to their contents; the empty
\* directory and the empty dict {} are <<>>.
\* _save_yaml(filename, data)
SaveYaml(current, filename, data) ==
    [f \in DOMAIN current \cup {filename} |-> IF f = filename THEN data ELSE current[f]]

\* _load_yaml_from_path(path / filename): {} for a file that does not exist
LoadYamlFromPath(dir, filename) ==
    IF filename \in DOMAIN dir THEN dir[filename] ELSE <<>>

\* data.get(key, {}).keys() of a loaded catalog file
Keys(data, key) == IF key \in DOMAIN data THEN DOMAIN data[key] ELSE {}

\* sync_dataflows: what it leaves in current/ and returns, or that it raised
sync_dataflows(current, srv, t) ==
    IF ~srv.dataflows.ok
    THEN [raised |-> TRUE, current |-> current, n |-> 0]
    ELSE LET listing == srv.dataflows.body
             dataflows == [id \in DOMAIN listing |->
                              [version |-> listing[id], last_updated |-> t]]
         IN  [raised |-> FALSE,
              current |-> SaveYaml(current, "dataflows.yaml",
                                   [synced_at |-> t, dataflows |-> dataflows]),
              n |-> Cardinality(DOMAIN dataflows)]

\* _fetch_codelist: <<the codelist>>, <<>> for None
FetchCodelist(srv, cl_id, t) ==
    IF srv.codelists[cl_id].ok
    THEN <<[codes |-> srv.codelists[cl_id].body, last_updated |-> t]>>
    ELSE <<>>

\* sync_codelists
sync_codelists(current, srv, t) ==
    LET fetched_ids == {cl_id \in Range(codelist_ids) : FetchCodelist(srv, cl_id, t) # <<>>}
        codelists == [cl_id \in fetched_ids |-> FetchCodelist(srv, cl_id, t)[1]]
    IN  [raised |-> FALSE,
         current |-> SaveYaml(current, "codelists.yaml",
                              [synced_at |-> t, codelists |-> codelists]),
         n |-> Cardinality(fetched_ids)]

\* sync_indicators
sync_indicators(current, srv, t) ==
    LET indicators_of == [code \in srv.config |-> [source |-> "config"]]
    IN  [raised |-> FALSE,
         current |-> SaveYaml(current, "indicators.yaml",
                              [synced_at |-> t, indicators |-> indicators_of]),
         n |-> Cardinality(srv.config)]

\* the files _create_vintage copies
VintageFiles == {"dataflows.yaml", "indicators.yaml", "codelists.yaml"}

\* vintage_summary of _create_vintage
VintageSummary(vintage_date, results) ==
    [vintage_date |-> vintage_date, synced_at |-> results.synced_at,
     dataflows |-> results.dataflows, indicators |-> results.indicators,
     codelists |-> results.codelists]

\* the directory _create_vintage makes: the files of current/ and summary.yaml
VintageOf(current, vintage_date, results) ==
    [f \in (DOMAIN current \cap VintageFiles) \cup {"summary.yaml"} |->
        IF f = "summary.yaml" THEN VintageSummary(vintage_date, results) ELSE current[f]]

\* _create_vintage without 'if vintage_path.exists(): return vintage_path'
CreateVintageOverwriting(vintages, current, vintage_date, results) ==
    [d \in DOMAIN vintages \cup {vintage_date} |->
        IF d = vintage_date THEN VintageOf(current, vintage_date, results) ELSE vintages[d]]

\* _create_vintage: the vintages directory it leaves
CreateVintage(vintages, current, vintage_date, results) ==
    IF vintage_date \in DOMAIN vintages THEN vintages
    ELSE [d \in DOMAIN vintages \cup {vintage_date} |->
             IF d = vintage_date THEN VintageOf(current, vintage_date, results)
             ELSE vintages[d]]

\* history['vintages'][:50]
HistoryLimit == 50

\* a _update_sync_history that puts the entry at the end of the list
UpdateSyncHistoryAppending(history, results) ==
    LET inserted ==
            history \o <<[vintage_date |-> results.vintage_date, synced_at |-> results.synced_at,
                          dataflows |-> results.dataflows, indicators |-> results.indicators,
                          codelists |-> results.codelists, errors |-> results.errors]>>
    IN  SubSeq(inserted, 1, IF Len(inserted) < HistoryLimit THEN Len(inserted) ELSE HistoryLimit)

\* a _update_sync_history that records only the syncs without errors
UpdateSyncHistoryOnSuccess(history, results) ==
    IF results.errors # <<>> THEN history
    ELSE LET inserted ==
                 <<[vintage_date |-> results.vintage_date, synced_at |-> results.synced_at,
                    dataflows |-> results.dataflows, indicators |-> results.indicators,
                    codelists |-> results.codelists, errors |-> results.errors]>> \o history
         IN  SubSeq(inserted, 1,
                    IF Len(inserted) < HistoryLimit THEN Len(inserted) ELSE HistoryLimit)

\* _update_sync_history without history['vintages'][:50]
UpdateSyncHistoryUnpruned(history, results) ==
    <<[vintage_date |-> results.vintage_date, synced_at |-> results.synced_at,
       dataflows |-> results.dataflows, indicators |-> results.indicators,
       codelists |-> results.codelists, errors |-> results.errors]>> \o history

\* _update_sync_history: the 'vintages' list it writes
UpdateSyncHistory(history, results) ==
    LET entry == [vintage_date |-> results.vintage_date, synced_at |-> results.synced_at,
                  dataflows |-> results.dataflows, indicators |-> results.indicators,
                  codelists |-> results.codelists, errors |-> results.errors]
        inserted == <<entry>> \o history
    IN  SubSeq(inserted, 1, IF Len(inserted) < HistoryLimit THEN Len(inserted) ELSE HistoryLimit)

\* the summary sync_all builds at tick t from the three catalog steps
Results(dfl, cdl, ind, t) ==
    [synced_at |-> t, vintage_date |-> VintageDate(t), dataflows |-> dfl.n,
     codelists |-> cdl.n, indicators |-> ind.n,
     errors |-> (IF dfl.raised THEN <<"Dataflows">> ELSE <<>>)
                \o (IF cdl.raised THEN <<"Codelists">> ELSE <<>>)
                \o (IF ind.raised THEN <<"Indicators">> ELSE <<>>)]

\* sync_all without the try blocks: the failure of a catalog step leaves sync_all at once
SyncAllAborting(cache, srv, t, create_vintage) ==
    LET dfl == sync_dataflows(cache.current, srv, t)
        cdl == sync_codelists(dfl.current, srv, t)
        ind == sync_indicators(cdl.current, srv, t)
        results == Results(dfl, cdl, ind, t)
    IN  IF dfl.raised
        THEN [returned |-> FALSE, cache |-> cache, results |-> results]
        ELSE [returned |-> TRUE,
              cache |-> [current |-> ind.current,
                         vintages |-> IF create_vintage
                                      THEN CreateVintage(cache.vintages, ind.current,
                                                         results.vintage_date, results)
                                      ELSE cache.vintages,
                         history |-> UpdateSyncHistory(cache.history, results)],
              results |-> results]

\* sync_all at tick t on the cache [current, vintages, history]: whether it returned, the
\* cache it leaves and the summary it returns; a catalog step that raises is caught and
\* the next step starts from the current/ it left
sync_all(cache, srv, t, create_vintage) ==
    LET dfl == sync_dataflows(cache.current, srv, t)
        cdl == sync_codelists(dfl.current, srv, t)
        ind == sync_indicators(cdl.current, srv, t)
        results == Results(dfl, cdl, ind, t)
    IN  [returned |-> TRUE,
         cache |-> [current |-> ind.current,
                    vintages |-> IF create_vintage
                                 THEN CreateVintage(cache.vintages, ind.current,
                                                    results.vintage_date, results)
                                 ELSE cache.vintages,
                    history |-> UpdateSyncHistory(cache.history, results)],
         results |-> results]

\* _is_stale at tick t: age.days > max_age_days, age.days being the whole days of the age
IsStale(history, t, max_age_days) ==
    IF history = <<>> THEN TRUE
    ELSE (t - history[1].synced_at) \div TicksPerDay > max_age_days

\* list_vintages
list_vintages(vintages) ==
    SortedReverse({d \in DOMAIN vintages : "dataflows.yaml" \in DOMAIN vintages[d]})

\* get_vintage_path answering current/ for a vintage that does not exist
GetVintagePathFallingBack(cache, vintage) ==
    IF vintage = <<>> THEN <<cache.current>>
    ELSE IF vintage[1] \notin DOMAIN cache.vintages THEN <<cache.current>>
    ELSE <<cache.vintages[vintage[1]]>>

\* get_vintage_path: <<the directory>>, <<>> when it raises ValueError; the vintage
\* argument is <<>> for None and <<date>> for a date
get_vintage_path(cache, vintage) ==
    IF vintage = <<>> THEN <<cache.current>>
    ELSE IF vintage[1] \notin DOMAIN cache.vintages THEN <<>>
    ELSE <<cache.vintages[vintage[1]]>>

\* load_dataflows, load_codelists, load_indicators: <<the data>>, <<>> when ValueError
Load(cache, filename, vintage) ==
    IF get_vintage_path(cache, vintage) = <<>> THEN <<>>
    ELSE <<LoadYamlFromPath(get_vintage_path(cache, vintage)[1], filename)>>

\* compare_vintages with the two differences exchanged
CompareVintagesSwapped(cache, vintage1, vintage2) ==
    IF get_vintage_path(cache, vintage1) = <<>> \/ get_vintage_path(cache, vintage2) = <<>>
    THEN <<>>
    ELSE LET path1 == get_vintage_path(cache, vintage1)[1]
             path2 == get_vintage_path(cache, vintage2)[1]
             flows1 == Keys(LoadYamlFromPath(path1, "dataflows.yaml"), "dataflows")
             flows2 == Keys(LoadYamlFromPath(path2, "dataflows.yaml"), "dataflows")
             inds1 == Keys(LoadYamlFromPath(path1, "indicators.yaml"), "indicators")
             inds2 == Keys(LoadYamlFromPath(path2, "indicators.yaml"), "indicators")
         IN  <<[vintage1 |-> vintage1,
                vintage2 |-> vintage2,
                dataflows |-> [added |-> flows1 \ flows2, removed |-> flows2 \ flows1,
                               changed |-> {}],
                indicators |-> [added |-> inds1 \ inds2, removed |-> inds2 \ inds1,
                                changed |-> {}]]>>

\* compare_vintages: <<changes>>, <<>> when ValueError
compare_vintages(cache, vintage1, vintage2) ==
    IF get_vintage_path(cache, vintage1) = <<>> \/ get_vintage_path(cache, vintage2) = <<>>
    THEN <<>>
    ELSE LET path1 == get_vintage_path(cache, vintage1)[1]
             path2 == get_vintage_path(cache, vintage2)[1]
             flows1 == Keys(LoadYamlFromPath(path1, "dataflows.yaml"), "dataflows")
             flows2 == Keys(LoadYamlFromPath(path2, "dataflows.yaml"), "dataflows")
             inds1 == Keys(LoadYamlFromPath(path1, "indicators.yaml"), "indicators")
             inds2 == Keys(LoadYamlFromPath(path2, "indicators.yaml"), "indicators")
         IN  <<[vintage1 |-> vintage1,
                vintage2 |-> vintage2,
                dataflows |-> [added |-> flows2 \ flows1, removed |-> flows1 \ flows2,
                               changed |-> {}],
                indicators |-> [added |-> inds2 \ inds1, removed |-> inds1 \ inds2,
                                changed |-> {}]]>>

\* ------------------------------------------- metadata.py: validate_dataframe
\* Issue texts and the codes they embed are sequences of characters, so that
\* 'Missing' in issue is computed on the text validate_dataframe formats.

\* pat in text
Contains(text, pat) ==
    \E i \in 1..(Len(text) - Len(pat) + 1) : SubSeq(text, i, i + Len(pat) - 1) = pat

\* "Missing"
MissingText == <<"M", "i", "s", "s", "i", "n", "g">>

\* f"Indicator '{indicator_code}' not found in catalog"
IndicatorNotFoundIssue(indicator_code) ==
    <<"I", "n", "d", "i", "c", "a", "t", "o", "r", " ", "'">>
        \o indicator_code
        \o <<"'", " ", "n", "o", "t", " ", "f", "o", "u", "n", "d", " ", "i", "n", " ", "c", "a",
           "t", "a", "l", "o", "g">>

\* the required columns, in the order they are checked, and their names as text
required_cols == <<"REF_AREA", "TIME_PERIOD", "OBS_VALUE">>
ColumnText(col) ==
    IF col = "REF_AREA" THEN <<"R", "E", "F", "_", "A", "R", "E", "A">>
    ELSE IF col = "TIME_PERIOD" THEN <<"T", "I", "M", "E", "_", "P", "E", "R", "I", "O", "D">>
    ELSE <<"O", "B", "S", "_", "V", "A", "L", "U", "E">>

\* f"Missing required column: {col}"
MissingColumnIssue(col) ==
    <<"M", "i", "s", "s", "i", "n", "g", " ", "r", "e", "q", "u", "i", "r", "e", "d", " ",
      "c", "o", "l", "u", "m", "n", ":", " ">>
        \o ColumnText(col)

\* repr of a list of str: ['ALB', 'XKX']
RECURSIVE ListRepr(_)
ListRepr(codes) ==
    IF codes = <<>> THEN <<>>
    ELSE <<"'">> \o codes[1] \o <<"'">>
         \o (IF Len(codes) > 1 THEN <<",", " ">> ELSE <<>>) \o ListRepr(Tail(codes))

\* f"Invalid country codes: {list(invalid_countries)[:5]}..."
InvalidCountriesIssue(listed) ==
    <<"I", "n", "v", "a", "l", "i", "d", " ", "c", "o", "u", "n", "t", "r", "y", " ", "c",
      "o", "d", "e", "s", ":", " ">> \o <<"[">>
        \o ListRepr(SubSeq(listed, 1, IF Len(listed) < 5 THEN Len(listed) ELSE 5))
        \o <<"]", ".", ".", ".">>

\* "DataFrame is empty"
EmptyFrameIssue ==
    <<"D", "a", "t", "a", "F", "r", "a", "m", "e", " ", "i", "s", " ", "e", "m", "p", "t",
      "y">>

\* f"High null rate in OBS_VALUE: {null_pct:.1f}%" for nulls missing values among n rows
HighNullIssue(nulls, n) ==
    LET tenths == (2000 * nulls + n) \div (2 * n)
    IN  <<"H", "i", "g", "h", " ", "n", "u", "l", "l", " ", "r", "a", "t", "e", " ", "i", "n",
          " ", "O", "B", "S", "_", "V", "A", "L", "U", "E", ":", " ">>
            \o FormatInt(tenths \div 10, 1) \o <<".", Digits[(tenths % 10) + 1], "%">>

\* list(invalid_countries): the codes of the set in one of the orders a set iterates in
Orderings(S) == {f \in [1..Cardinality(S) -> S] : Range(f) = S}

\* codelists.get('codelists', {}).get('CL_REF_AREA', {}).get('codes', {}).keys()
RefAreaCodes(data) ==
    IF "codelists" \in DOMAIN data /\ "CL_REF_AREA" \in DOMAIN data.codelists
    THEN data.codelists["CL_REF_AREA"].codes
    ELSE {}

\* the issues of the steps that check the table alone, in the order they are appended
RECURSIVE MissingColumnIssues(_, _)
MissingColumnIssues(df, cols) ==
    IF cols = <<>> THEN <<>>
    ELSE (IF cols[1] \notin df.cols THEN <<MissingColumnIssue(cols[1])>> ELSE <<>>)
         \o MissingColumnIssues(df, Tail(cols))

\* is_valid = len(issues) == 0 if strict else not any('Missing' in i for i in issues)
IsValid(issues, strict) ==
    IF strict THEN Len(issues) = 0
    ELSE ~\E k \in 1..Len(issues) : Contains(issues[k], MissingText)

\* validate_dataframe after its ensure_synced: the (is_valid, issues) pairs it can return,
\* one for each order the invalid country codes can be listed in; {} when
\* get_vintage_path raises ValueError
validate_dataframe(cache, df, indicator_code, strict, vintage) ==
    IF get_vintage_path(cache, vintage) = <<>> THEN {}
    ELSE LET indicators_data == Load(cache, "indicators.yaml", vintage)[1]
             codelists_data == Load(cache, "codelists.yaml", vintage)[1]
             ref_area_codes == RefAreaCodes(codelists_data)
             invalid_countries ==
                 IF ref_area_codes # {} /\ "REF_AREA" \in df.cols
                 THEN {df.rows[i]["REF_AREA"] : i \in 1..Len(df.rows)} \ ref_area_codes
                 ELSE {}
             nulls ==
                 IF "OBS_VALUE" \in df.cols
                 THEN Cardinality({i \in 1..Len(df.rows) : df.rows[i]["OBS_VALUE"] = NaN})
                 ELSE 0
         IN  { [is_valid |-> IsValid(issues, strict), issues |-> issues] :
                 issues \in
                   { (IF indicator_code \notin Keys(indicators_data, "indicators")
                      THEN <<IndicatorNotFoundIssue(indicator_code)>> ELSE <<>>)
                     \o MissingColumnIssues(df, required_cols)
                     \o (IF invalid_countries # {}
                         THEN <<InvalidCountriesIssue(listed)>> ELSE <<>>)
                     \o (IF Len(df.rows) = 0 THEN <<EmptyFrameIssue>> ELSE <<>>)
                     \o (IF 2 * nulls > Len(df.rows)
                         THEN <<HighNullIssue(nulls, Len(df.rows))>> ELSE <<>>)
                     : listed \in Orderings(invalid_countries) } }

\* ------------------------------------------------------------------ state
VARIABLES
    pc,                 \* "idle", "try" (in the candidate loop), "returned" (an indicator's
                        \* fetch has returned), "fetched" (_fetch_with_fallback has returned), "done"
    indicators,         \* get_unicef: the indicator list
    dataflow_arg,       \* get_unicef: the dataflow argument, NONE when not given
    raw,                \* get_unicef: raw
    ignore_duplicates,  \* get_unicef: ignore_duplicates
    format,             \* get_unicef: format
    latest,             \* get_unicef: latest
    add_metadata,       \* get_unicef: add_metadata as a set, {} for None and for []
    dropna,             \* get_unicef: dropna
    simplify,           \* get_unicef: simplify
    mrv,                \* get_unicef: mrv, 0 for None
    dataflow,           \* the dataflow handed to _fetch_with_fallback
    ind_pos,            \* position in 'for ind in indicators'
    dataflows_to_try,   \* candidate list of the current indicator
    attempts,           \* the fetcher calls made for the current indicator, with their outcomes
    last_error,         \* last_error of _fetch_indicator_with_fallback
    ret,                \* what _fetch_indicator_with_fallback returned for the current indicator
    fetched,            \* what it returned for each indicator so far
    dfs,                \* dfs of _fetch_with_fallback
    unioned,            \* what _fetch_with_fallback returned
    result,             \* result of get_unicef
    n_duplicates,       \* n_duplicates of get_unicef
    warned,             \* a UserWarning was emitted; in SpecFormat, _apply_format printed
                        \* its warning
    raised,             \* the failure get_unicef raised, NONE when none
    stages,             \* the post-production stages get_unicef entered, in order
    time_period,        \* a TIME_PERIOD text handed to the period conversion, <<>> when none
    decimal_year,       \* <<the period it was converted to>>, <<>> before
    output,             \* <<table>> once get_unicef has returned a table
    current_dir,        \* MetadataSync: the files of current/, name -> content
    vintages_dir,       \* MetadataSync: the directories of vintages/, date -> files
    sync_history,       \* MetadataSync: the 'vintages' list of sync_history.yaml
    now,                \* the clock, in ticks
    service,            \* what the reference service answers and the installed configuration
    call,               \* the last MetadataSync call: its arguments, the tick it was made
                        \* at where that matters, and what it returned
    sync_log,           \* the sync_all runs so far, newest first (LogEntry)
    syncing             \* the sync_all calls under way in the processes that share the
                        \* cache directory: for each process its position and its local
                        \* variables, and the order in which files were written

vars == <<pc, indicators, dataflow_arg, raw, ignore_duplicates, format, latest, add_metadata,
          dropna, simplify, mrv, dataflow, ind_pos, dataflows_to_try, attempts, last_error,
          ret, fetched, dfs, unioned, result, n_duplicates, warned, raised, stages, output,
          time_period, decimal_year, current_dir, vintages_dir, sync_history, now, service,
          call, sync_log, syncing>>

request == <<indicators, dataflow_arg, raw, ignore_duplicates, format, latest, add_metadata,
             dropna, simplify, mrv, dataflow>>
post == <<unioned, result, n_duplicates, warned, stages, output>>
metadata == <<current_dir, vintages_dir, sync_history, now, service, call, sync_log,
              syncing>>
unicef == <<pc, ind_pos, dataflows_to_try, attempts, last_error, ret, fetched, dfs, raised,
            time_period, decimal_year, request, post>>

\* the processes that call sync_all on one cache directory
Procs == {1, 2}

\* no sync_all call is under way: proc holds the position and the local variables of
\* each process, history_writes the processes in the order they wrote sync_history.yaml,
\* vintage_writes the processes that wrote a file into a vintage directory
NotSyncing ==
    [proc |-> [p \in Procs |-> [pc |-> "idle", create_vintage |-> FALSE, results |-> <<>>,
                                copied |-> 0, history |-> <<>>]],
     history_writes |-> <<>>,
     vintage_writes |-> {}]

\* MetadataSync.__init__ on a new cache directory: current/ and vintages/ are made
\* empty and there is no sync_history.yaml; no service is asked while get_unicef runs
NoMetadata ==
    /\ current_dir = <<>>
    /\ vintages_dir = <<>>
    /\ sync_history = <<>>
    /\ now = 0
    /\ service = [dataflows |-> Failing, codelists |-> CodelistsFailing, config |-> {}]
    /\ call = [op |-> "none"]
    /\ sync_log = <<>>
    /\ syncing = NotSyncing

\* the options of the call as the stages read them
Options ==
    [ignore_duplicates |-> ignore_duplicates, format |-> format, latest |-> latest,
     add_metadata |-> add_metadata, dropna |-> dropna, simplify |-> simplify, mrv |-> mrv]

\* format="long", latest=False, add_metadata=None, dropna=False, simplify=False, mrv=None
DefaultOptions ==
    /\ format = "long"
    /\ latest = FALSE
    /\ add_metadata = {}
    /\ dropna = FALSE
    /\ simplify = FALSE
    /\ mrv = 0

\* the dataflow arguments a request is drawn from
DataflowArgs == {NONE, GLOBAL_DATAFLOW, "PT_CM"}

Init ==
    /\ pc = "idle"
    /\ indicators = <<>>
    /\ dataflow_arg = NONE
    /\ raw = FALSE
    /\ ignore_duplicates = FALSE
    /\ DefaultOptions
    /\ dataflow = NONE
    /\ ind_pos = 0
    /\ dataflows_to_try = <<>>
    /\ attempts = <<>>
    /\ last_error = NONE
    /\ ret = EmptyTable
    /\ fetched = <<>>
    /\ dfs = <<>>
    /\ unioned = EmptyTable
    /\ result = EmptyTable
    /\ n_duplicates = 0
    /\ warned = FALSE
    /\ raised = NONE
    /\ stages = <<>>
    /\ output = <<>>
    /\ time_period = <<>>
    /\ decimal_year = <<>>
    /\ NoMetadata

\* get_unicef up to the first fetcher call: the dataflow is resolved from indicators[0]
\* when none is given; _fetch_with_fallback enters _fetch_indicator_with_fallback for
\* the first indicator, which builds its candidate list; the options of the
\* post-production stages are left at their defaults here and drawn in SpecPipe
GetUnicef ==
    /\ pc = "idle"
    /\ \E inds \in SeqsOf(IndicatorCodes, 1, MaxIndicators), d \in DataflowArgs,
          r \in BOOLEAN, ign \in BOOLEAN :
        LET df0 == IF d = NONE THEN get_dataflow_for_indicator(inds[1]) ELSE d
        IN /\ indicators' = inds
           /\ dataflow_arg' = d
           /\ raw' = r
           /\ ignore_duplicates' = ign
           /\ dataflow' = df0
           /\ ind_pos' = 1
           /\ dataflows_to_try' = DataflowsToTry(inds[1], df0)
    /\ attempts' = <<>>
    /\ last_error' = NONE
    /\ pc' = "try"
    /\ UNCHANGED <<format, latest, add_metadata, dropna, simplify, mrv>>
    /\ UNCHANGED <<ret, fetched, dfs, raised, time_period, decimal_year>>
    /\ UNCHANGED post
    /\ UNCHANGED metadata

\* one iteration of 'for df_attempt in dataflows_to_try', and the code after the loop
\* when it was the last one
FetchAttempt ==
    /\ pc = "try"
    /\ LET i == Len(attempts) + 1
           df_attempt == dataflows_to_try[i]
           last == i = Len(dataflows_to_try)
       IN \E out \in FetcherOutcomes(indicators[ind_pos], ~raw) :
           /\ attempts' = Append(attempts, [dataflow |-> df_attempt, outcome |-> out])
           /\ IF out.error = NONE /\ ReturnsTable(out.df)
              THEN /\ ret' = out.df
                   /\ pc' = "returned"
                   /\ UNCHANGED <<last_error, raised>>
              ELSE IF out.error # NONE /\ ~IsNotFound(out.error)
              THEN /\ raised' = Reraise(out.error).raised
                   /\ pc' = Reraise(out.error).pc
                   /\ UNCHANGED <<last_error, ret>>
              ELSE LET err == IF out.error = NONE THEN last_error ELSE out.error
                   IN /\ last_error' = err
                      /\ IF ~last
                         THEN /\ pc' = "try"
                              /\ UNCHANGED <<ret, raised>>
                         ELSE /\ raised' = AllFailed(err).raised
                              /\ ret' = AllFailed(err).ret
                              /\ pc' = IF AllFailed(err).raised = NONE THEN "returned" ELSE "done"
    /\ UNCHANGED <<ind_pos, dataflows_to_try, fetched, dfs, time_period, decimal_year>>
    /\ UNCHANGED request
    /\ UNCHANGED post
    /\ UNCHANGED metadata

\* _fetch_with_fallback after a call of _fetch_indicator_with_fallback has returned:
\* the table is kept when not empty, and either the next indicator's fetch begins or
\* the tables are concatenated and returned to get_unicef
NextIndicator ==
    /\ pc = "returned"
    /\ fetched' = Append(fetched, ret)
    /\ dfs' = IF ~IsEmpty(ret) THEN Append(dfs, ret) ELSE dfs
    /\ IF ind_pos < Len(indicators)
       THEN /\ ind_pos' = ind_pos + 1
            /\ dataflows_to_try' = DataflowsToTry(indicators[ind_pos + 1], dataflow)
            /\ attempts' = <<>>
            /\ last_error' = NONE
            /\ pc' = "try"
            /\ UNCHANGED <<unioned, result>>
       ELSE /\ unioned' = IF dfs' = <<>> THEN EmptyTable ELSE Concat(dfs')
            /\ result' = unioned'
            /\ pc' = "fetched"
            /\ UNCHANGED <<ind_pos, dataflows_to_try, attempts, last_error>>
    /\ UNCHANGED <<ret, raised, n_duplicates, warned, stages, output, time_period, decimal_year>>
    /\ UNCHANGED request
    /\ UNCHANGED metadata

\* the early return without the test of raw
ReturnsEarlyOnEmptyOnly(is_raw, df) == IsEmpty(df)

\* 'if raw or result.empty: return result'
ReturnsEarly(is_raw, df) == is_raw \/ IsEmpty(df)

\* get_unicef after the fetch: the early return, then the post-production stages up to the
\* return or to the failure one of them raises
PostProduction ==
    /\ pc = "fetched"
    /\ pc' = "done"
    /\ IF ReturnsEarly(raw, result)
       THEN /\ output' = <<result>>
            /\ UNCHANGED <<result, n_duplicates, warned, raised, stages>>
       ELSE \E fin \in {RunStages([df |-> result, err |-> NONE, n_duplicates |-> n_duplicates,
                                   warned |-> warned, trace |-> <<>>], StageOrder, Options)} :
               /\ result' = fin.df
               /\ n_duplicates' = fin.n_duplicates
               /\ warned' = fin.warned
               /\ raised' = fin.err
               /\ stages' = fin.trace
               /\ output' = IF fin.err = NONE THEN <<fin.df>> ELSE output
    /\ UNCHANGED <<ind_pos, dataflows_to_try, attempts, last_error, ret, fetched, dfs, unioned>>
    /\ UNCHANGED <<time_period, decimal_year>>
    /\ UNCHANGED request
    /\ UNCHANGED metadata

Next == GetUnicef \/ FetchAttempt \/ NextIndicator \/ PostProduction

Spec == Init /\ [][Next]_vars

\* ------------------------------------------- the post-production steps alone
\* periods of the unioned tables: a number, its decimal text, two texts that are no number
PostPeriods == {Num(2020), Text(2020), Text(-1), Text(-2)}

PostRows(tidy) == {MkRow(tidy, CME_MRM0, "ALB", p, v) : p \in PostPeriods, v \in {Num(10), NaN}}

\* get_unicef("CME_MRM0", ...) whose first candidate, CME, has answered the table t
InitPost ==
    /\ pc = "fetched"
    /\ indicators = <<CME_MRM0>>
    /\ dataflow_arg = NONE
    /\ raw \in BOOLEAN
    /\ ignore_duplicates \in BOOLEAN
    /\ DefaultOptions
    /\ dataflow = get_dataflow_for_indicator(CME_MRM0)
    /\ ind_pos = 1
    /\ dataflows_to_try = DataflowsToTry(CME_MRM0, dataflow)
    /\ \E t \in {[cols |-> IF raw THEN RawCols ELSE TidyCols, rows |-> r] :
                    r \in SeqsOf(PostRows(~raw), 1, MaxPostRows)} :
        /\ attempts = <<[dataflow |-> dataflows_to_try[1], outcome |-> [error |-> NONE, df |-> t]]>>
        /\ ret = t
        /\ fetched = <<t>>
        /\ dfs = <<t>>
        /\ unioned = t
        /\ result = t
    /\ last_error = NONE
    /\ n_duplicates = 0
    /\ warned = FALSE
    /\ raised = NONE
    /\ stages = <<>>
    /\ output = <<>>
    /\ time_period = <<>>
    /\ decimal_year = <<>>
    /\ NoMetadata

NextPost == PostProduction

SpecPost == InitPost /\ [][NextPost]_vars

\* ------------------------------------ the post-production run with options
\* columns of the tidy tables of SpecPipe: the country name is there as well
PipeCols == TidyCols \cup {"country_name"}

CountryNames == ("ALB" :> "Albania") @@ ("XKX" :> "Kosovo")

\* one observation with the country name
MkPipeRow(iso, p, v) ==
    [c \in PipeCols |-> IF c = "country_name" THEN CountryNames[iso]
                        ELSE MkRow(TRUE, CME_MRM0, iso, Num(p), v)[c]]

\* the rows of the tables: two years of ALB, one of XKX, the value there or missing
PipeRows ==
    {MkPipeRow("ALB", p, v) : p \in {2020, 2021}, v \in {Num(10), NaN}}
    \cup {MkPipeRow("XKX", 2020, v) : v \in {Num(10), NaN}}

\* the add_metadata arguments a call is drawn from
MetadataArgs ==
    {{}, {"region", "income_group", "continent"}, {"indicator_name", "indicator_category"}}

\* get_unicef("CME_MRM0", ...) with any options, whose first candidate has answered t
InitPipe ==
    /\ pc = "fetched"
    /\ indicators = <<CME_MRM0>>
    /\ dataflow_arg = NONE
    /\ raw = FALSE
    /\ ignore_duplicates \in BOOLEAN
    /\ format \in {"long", "wide", "wide_indicators"}
    /\ latest \in BOOLEAN
    /\ add_metadata \in MetadataArgs
    /\ dropna \in BOOLEAN
    /\ simplify \in BOOLEAN
    /\ mrv \in 0..2
    /\ dataflow = get_dataflow_for_indicator(CME_MRM0)
    /\ ind_pos = 1
    /\ dataflows_to_try = DataflowsToTry(CME_MRM0, dataflow)
    /\ \E t \in {[cols |-> PipeCols, rows |-> r] : r \in SeqsOf(PipeRows, 1, MaxPipeRows)} :
        /\ attempts = <<[dataflow |-> dataflows_to_try[1], outcome |-> [error |-> NONE, df |-> t]]>>
        /\ ret = t
        /\ fetched = <<t>>
        /\ dfs = <<t>>
        /\ unioned = t
        /\ result = t
    /\ last_error = NONE
    /\ n_duplicates = 0
    /\ warned = FALSE
    /\ raised = NONE
    /\ stages = <<>>
    /\ output = <<>>
    /\ time_period = <<>>
    /\ decimal_year = <<>>
    /\ NoMetadata

NextPipe == PostProduction

SpecPipe == InitPipe /\ [][NextPipe]_vars

\* ------------------------------------------- the raw return with options
\* the rows of the raw tables: ALB and XKX in one year, the value there or missing
RawRows ==
    {MkRow(FALSE, CME_MRM0, "ALB", Text(2020), v) : v \in {Num(10), NaN}}
    \cup {MkRow(FALSE, CME_MRM0, "XKX", Text(2020), Num(10))}

\* get_unicef("CME_MRM0", raw=True, ...) with any options, whose first candidate has
\* answered a table of at most MaxPipeRows rows in the columns of the API
InitRaw ==
    /\ pc = "fetched"
    /\ indicators = <<CME_MRM0>>
    /\ dataflow_arg = NONE
    /\ raw = TRUE
    /\ ignore_duplicates \in BOOLEAN
    /\ format \in {"long", "wide", "wide_indicators"}
    /\ latest \in BOOLEAN
    /\ add_metadata \in MetadataArgs
    /\ dropna \in BOOLEAN
    /\ simplify \in BOOLEAN
    /\ mrv \in 0..2
    /\ dataflow = get_dataflow_for_indicator(CME_MRM0)
    /\ ind_pos = 1
    /\ dataflows_to_try = DataflowsToTry(CME_MRM0, dataflow)
    /\ \E t \in {[cols |-> RawCols, rows |-> r] : r \in SeqsOf(RawRows, 1, MaxPipeRows)} :
        /\ attempts = <<[dataflow |-> dataflows_to_try[1], outcome |-> [error |-> NONE, df |-> t]]>>
        /\ ret = t
        /\ fetched = <<t>>
        /\ dfs = <<t>>
        /\ unioned = t
        /\ result = t
    /\ last_error = NONE
    /\ n_duplicates = 0
    /\ warned = FALSE
    /\ raised = NONE
    /\ stages = <<>>
    /\ output = <<>>
    /\ time_period = <<>>
    /\ decimal_year = <<>>
    /\ NoMetadata

NextRaw == PostProduction

SpecRaw == InitRaw /\ [][NextRaw]_vars

\* ----------------------------------------------------- _apply_format alone
\* the columns of the tables handed to _apply_format: those its body names, with and
\* without the indicator column
FormatCols == {{"country_code", "year", "value"},
               {"country_code", "year", "value", "indicator_code"}}

\* the rows of a table with the columns cols: two countries, two years, two indicators,
\* the value there or missing
FormatRows(cols) ==
    {[c \in cols |-> CASE c = "country_code" -> iso [] c = "year" -> Num(y)
                        [] c = "value" -> v [] c = "indicator_code" -> ind] :
        iso \in {"ALB", "XKX"}, y \in {2020, 2021}, v \in {Num(10), NaN},
        ind \in {CME_MRM0, NT_ANT_WHZ_NE2}}

\* _apply_format(df, format, indicators) is about to be called on the table result
InitFormat ==
    /\ pc = "format"
    /\ indicators = <<CME_MRM0, NT_ANT_WHZ_NE2>>
    /\ dataflow_arg = NONE
    /\ raw = FALSE
    /\ ignore_duplicates = FALSE
    /\ format \in {"long", "wide", "wide_indicators"}
    /\ latest = FALSE
    /\ add_metadata = {}
    /\ dropna = FALSE
    /\ simplify = FALSE
    /\ mrv = 0
    /\ dataflow = NONE
    /\ ind_pos = 0
    /\ dataflows_to_try = <<>>
    /\ attempts = <<>>
    /\ last_error = NONE
    /\ ret = EmptyTable
    /\ fetched = <<>>
    /\ dfs = <<>>
    /\ unioned = EmptyTable
    /\ \E cols \in FormatCols :
           result \in {[cols |-> cols, rows |-> r] : r \in SeqsOf(FormatRows(cols), 1, MaxFormatRows)}
    /\ n_duplicates = 0
    /\ warned = FALSE
    /\ raised = NONE
    /\ stages = <<>>
    /\ output = <<>>
    /\ time_period = <<>>
    /\ decimal_year = <<>>
    /\ NoMetadata

\* _apply_format from its first statement to its return or to the failure it raises;
\* warned tells whether the warning of the wide_indicators branch was printed
ApplyFormat ==
    /\ pc = "format"
    /\ pc' = "done"
    /\ LET r == apply_format(result, format)
       IN /\ raised' = r.err
          /\ output' = IF r.err = NONE THEN <<r.df>> ELSE <<>>
    /\ warned' = (format = "wide_indicators" /\ WideIndicatorsNoOp(result))
    /\ UNCHANGED <<ind_pos, dataflows_to_try, attempts, last_error, ret, fetched, dfs,
                   time_period, decimal_year>>
    /\ UNCHANGED <<unioned, result, n_duplicates, stages>>
    /\ UNCHANGED request
    /\ UNCHANGED metadata

NextFormat == ApplyFormat

SpecFormat == InitFormat /\ [][NextFormat]_vars

\* ------------------------------------------------ the period conversion alone
\* the conversion of one TIME_PERIOD text to a numeric period
ConvertPeriod ==
    /\ time_period # <<>>
    /\ decimal_year = <<>>
    /\ decimal_year' = <<DecimalYear(time_period)>>
    /\ UNCHANGED <<pc, ind_pos, dataflows_to_try, attempts, last_error, ret, fetched, dfs,
                   raised, time_period>>
    /\ UNCHANGED request
    /\ UNCHANGED post
    /\ UNCHANGED metadata

\* a year or a month of one of MaxYears years is about to be converted
InitPeriod ==
    /\ pc = "idle"
    /\ indicators = <<>>
    /\ dataflow_arg = NONE
    /\ raw = FALSE
    /\ ignore_duplicates = FALSE
    /\ DefaultOptions
    /\ dataflow = NONE
    /\ ind_pos = 0
    /\ dataflows_to_try = <<>>
    /\ attempts = <<>>
    /\ last_error = NONE
    /\ ret = EmptyTable
    /\ fetched = <<>>
    /\ dfs = <<>>
    /\ unioned = EmptyTable
    /\ result = EmptyTable
    /\ n_duplicates = 0
    /\ warned = FALSE
    /\ raised = NONE
    /\ stages = <<>>
    /\ output = <<>>
    /\ time_period \in {TimePeriodText(BaseYear + y, m) : y \in 0..(MaxYears - 1), m \in 0..12}
    /\ decimal_year = <<>>
    /\ NoMetadata

NextPeriod == ConvertPeriod

SpecPeriod == InitPeriod /\ [][NextPeriod]_vars

\* ------------------------------------------------------- the metadata cache
\* the cache directory as the operations read it
Cache == [current |-> current_dir, vintages |-> vintages_dir, history |-> sync_history]

\* the vintage arguments a call is drawn from: <<>> for None, <<date>> for a date of
\* the clock's range
VintageArgs == {<<>>} \cup {<<VintageDate(t)>> : t \in 0..MaxClock}

\* the max_age_days arguments a call is drawn from
MaxAgeDays == {0, 1}

\* the entry of sync_log for a sync_all run: its argument, what the service answered,
\* whether it returned, its summary and the current/ it left
LogEntry(create_vintage, run) ==
    [create_vintage |-> create_vintage, service |-> service, returned |-> run.returned,
     results |-> run.results, current |-> run.cache.current]

\* one sync_all run on the cache, the limit-th at most; the run takes one tick
SyncAllRun(limit, create_vintage) ==
    /\ Len(sync_log) < limit
    /\ \E run \in {sync_all(Cache, service, now, create_vintage)} :
          /\ current_dir' = run.cache.current
          /\ vintages_dir' = run.cache.vintages
          /\ sync_history' = run.cache.history
          /\ call' = [op |-> "sync_all", create_vintage |-> create_vintage,
                      returned |-> run.returned, ret |-> run.results]
          /\ sync_log' = <<LogEntry(create_vintage, run)>> \o sync_log
    /\ now' = now + 1
    /\ UNCHANGED service
    /\ UNCHANGED unicef
    /\ UNCHANGED syncing

\* sync_all(create_vintage)
SyncAll == \E create_vintage \in BOOLEAN : SyncAllRun(MaxSyncs, create_vintage)

\* ensure_synced(max_age_days): sync_all() when the cache is stale
EnsureSynced ==
    \E max_age_days \in MaxAgeDays :
        IF IsStale(sync_history, now, max_age_days)
        THEN /\ Len(sync_log) < MaxSyncs
             /\ \E run \in {sync_all(Cache, service, now, TRUE)} :
                   /\ current_dir' = run.cache.current
                   /\ vintages_dir' = run.cache.vintages
                   /\ sync_history' = run.cache.history
                   /\ sync_log' = <<LogEntry(TRUE, run)>> \o sync_log
             /\ call' = [op |-> "ensure_synced", max_age_days |-> max_age_days, at |-> now,
                         ret |-> TRUE]
             /\ now' = now + 1
             /\ UNCHANGED service
             /\ UNCHANGED unicef
             /\ UNCHANGED syncing
        ELSE /\ call' = [op |-> "ensure_synced", max_age_days |-> max_age_days, at |-> now,
                         ret |-> FALSE]
             /\ UNCHANGED <<current_dir, vintages_dir, sync_history, sync_log, now, service>>
             /\ UNCHANGED unicef
             /\ UNCHANGED syncing

\* list_vintages()
ListVintages ==
    /\ call' = [op |-> "list_vintages", ret |-> list_vintages(vintages_dir)]
    /\ UNCHANGED <<current_dir, vintages_dir, sync_history, sync_log, now, service>>
    /\ UNCHANGED unicef
    /\ UNCHANGED syncing

\* load_dataflows(vintage), load_codelists(vintage), load_indicators(vintage)
LoadCatalog ==
    \E filename \in VintageFiles, vintage \in VintageArgs :
        /\ call' = [op |-> "load", filename |-> filename, vintage |-> vintage,
                    ret |-> Load(Cache, filename, vintage)]
        /\ UNCHANGED <<current_dir, vintages_dir, sync_history, sync_log, now, service>>
        /\ UNCHANGED unicef
        /\ UNCHANGED syncing

\* compare_vintages(vintage1, vintage2)
CompareVintages ==
    \E vintage1 \in VintageArgs \ {<<>>}, vintage2 \in VintageArgs :
        /\ call' = [op |-> "compare_vintages", vintage1 |-> vintage1, vintage2 |-> vintage2,
                    ret |-> compare_vintages(Cache, vintage1, vintage2)]
        /\ UNCHANGED <<current_dir, vintages_dir, sync_history, sync_log, now, service>>
        /\ UNCHANGED unicef
        /\ UNCHANGED syncing

\* time passes
Tick ==
    /\ now < MaxClock
    /\ now' = now + 1
    /\ UNCHANGED <<current_dir, vintages_dir, sync_history, sync_log, service, call>>
    /\ UNCHANGED unicef
    /\ UNCHANGED syncing

\* the reference service or the installed configuration changes; the model lets them
\* change at the start of a day only
ServiceChanges ==
    /\ now % TicksPerDay = 0
    /\ service' \in Services \ {service}
    /\ UNCHANGED <<current_dir, vintages_dir, sync_history, sync_log, now, call>>
    /\ UNCHANGED unicef
    /\ UNCHANGED syncing

\* a MetadataSync on a new cache directory
InitSync ==
    /\ pc = "idle"
    /\ indicators = <<>>
    /\ dataflow_arg = NONE
    /\ raw = FALSE
    /\ ignore_duplicates = FALSE
    /\ DefaultOptions
    /\ dataflow = NONE
    /\ ind_pos = 0
    /\ dataflows_to_try = <<>>
    /\ attempts = <<>>
    /\ last_error = NONE
    /\ ret = EmptyTable
    /\ fetched = <<>>
    /\ dfs = <<>>
    /\ unioned = EmptyTable
    /\ result = EmptyTable
    /\ n_duplicates = 0
    /\ warned = FALSE
    /\ raised = NONE
    /\ stages = <<>>
    /\ output = <<>>
    /\ time_period = <<>>
    /\ decimal_year = <<>>
    /\ current_dir = <<>>
    /\ vintages_dir = <<>>
    /\ sync_history = <<>>
    /\ now = 0
    /\ service \in Services
    /\ call = [op |-> "none"]
    /\ sync_log = <<>>
    /\ syncing = NotSyncing

\* syncing a cache directory while time passes and the service changes
NextSync ==
    \/ SyncAll
    \/ EnsureSynced
    \/ Tick
    \/ ServiceChanges

SpecSync == InitSync /\ [][NextSync]_vars

\* sync_all() run after run on one cache directory
NextHistory == SyncAllRun(MaxHistorySyncs, TRUE)

SpecHistory == InitSync /\ [][NextHistory]_vars

\* reading a cache directory between its syncs
NextVintages ==
    \/ SyncAll
    \/ Tick
    \/ ServiceChanges
    \/ ListVintages
    \/ LoadCatalog
    \/ CompareVintages

SpecVintages == InitSync /\ [][NextVintages]_vars

\* ------------------------------------------- validate_dataframe on a cache
\* the rows of a table with the columns cols; the country codes are a code of
\* CL_REF_AREA, a code it lacks, and the placeholder "Missing"
ValidateRows(cols) ==
    {[c \in cols |-> CASE c = "REF_AREA" -> iso [] c = "TIME_PERIOD" -> Text(BaseYear)
                       [] c = "OBS_VALUE" -> v] :
        iso \in {<<"A", "L", "B">>, <<"Z", "Z", "Z">>, MissingText}, v \in {Num(10), NaN}}

\* the tables handed to validate_dataframe: any of the required columns may be absent
ValidateFrames ==
    UNION {{[cols |-> cols, rows |-> r] : r \in SeqsOf(ValidateRows(cols), 0, MaxValidateRows)} :
              cols \in SUBSET Range(required_cols)}

\* validate_dataframe(df, indicator_code, strict, vintage) is about to be called on a
\* new cache directory by a MetadataSync made with max_age_days; the indicator code is
\* one of the configuration or one it lacks, the vintage None or the date of the first tick
InitValidate ==
    /\ pc = "idle"
    /\ indicators = <<>>
    /\ dataflow_arg = NONE
    /\ raw = FALSE
    /\ ignore_duplicates = FALSE
    /\ DefaultOptions
    /\ dataflow = NONE
    /\ ind_pos = 0
    /\ dataflows_to_try = <<>>
    /\ attempts = <<>>
    /\ last_error = NONE
    /\ ret = EmptyTable
    /\ fetched = <<>>
    /\ dfs = <<>>
    /\ unioned = EmptyTable
    /\ result = EmptyTable
    /\ n_duplicates = 0
    /\ warned = FALSE
    /\ raised = NONE
    /\ stages = <<>>
    /\ output = <<>>
    /\ time_period = <<>>
    /\ decimal_year = <<>>
    /\ current_dir = <<>>
    /\ vintages_dir = <<>>
    /\ sync_history = <<>>
    /\ now = 0
    /\ service \in Services
    /\ call \in [op : {"validate_dataframe"}, df : ValidateFrames,
                 indicator_code : {CME_MRM0, ED_MAT_L2}, strict : BOOLEAN,
                 vintage : {<<>>, <<VintageDate(0)>>}, max_age_days : MaxAgeDays,
                 returned : {FALSE}, synced : {FALSE}, ret : {<<>>}]
    /\ sync_log = <<>>
    /\ syncing = NotSyncing

\* validate_dataframe: ensure_synced(), then the checks; ret is <<>> when
\* get_vintage_path raises ValueError.  The call can be made again later.
ValidateDataframe ==
    /\ call.op = "validate_dataframe"
    /\ IsStale(sync_history, now, call.max_age_days) => Len(sync_log) < MaxSyncs
    /\ \E run \in {IF IsStale(sync_history, now, call.max_age_days)
                   THEN sync_all(Cache, service, now, TRUE)
                   ELSE [returned |-> FALSE, cache |-> Cache]} :
          /\ current_dir' = run.cache.current
          /\ vintages_dir' = run.cache.vintages
          /\ sync_history' = run.cache.history
          /\ sync_log' = IF run.returned THEN <<LogEntry(TRUE, run)>> \o sync_log ELSE sync_log
          /\ now' = IF run.returned THEN now + 1 ELSE now
          /\ \E outcomes \in {validate_dataframe(run.cache, call.df, call.indicator_code,
                                                 call.strict, call.vintage)} :
                IF outcomes = {}
                THEN call' = [call EXCEPT !.returned = TRUE, !.synced = run.returned,
                                          !.ret = <<>>]
                ELSE \E outcome \in outcomes :
                        call' = [call EXCEPT !.returned = TRUE, !.synced = run.returned,
                                             !.ret = <<outcome>>]
    /\ UNCHANGED service
    /\ UNCHANGED unicef
    /\ UNCHANGED syncing

\* a table is validated, and validated again as time passes
NextValidate ==
    \/ ValidateDataframe
    \/ Tick

SpecValidate == InitValidate /\ [][NextValidate]_vars

\* ----------------------- sync_all in processes that share a cache directory
\* Each operation on a file (the read or the write of a whole file, a copy, exists, mkdir)
\* is one step, and the steps of the processes interleave freely: the code takes no lock.
\* the position and the local variables of process p
Local(p) == syncing.proc[p]

\* process p goes to the position next with the local variables loc
Moves(p, next, loc) == [syncing EXCEPT !.proc[p] = [loc EXCEPT !.pc = next]]

\* sync_all(create_vintage) begins in process p: vintage_date and results are set
BeginSyncAll(p) ==
    /\ Local(p).pc = "idle"
    /\ \E create_vintage \in BOOLEAN :
          syncing' = Moves(p, "dataflows",
                           [Local(p) EXCEPT
                               !.create_vintage = create_vintage,
                               !.results = [synced_at |-> now, vintage_date |-> VintageDate(now),
                                            dataflows |-> 0, codelists |-> 0, indicators |-> 0,
                                            errors |-> <<>>]])
    /\ now' = now + 1
    /\ UNCHANGED <<current_dir, vintages_dir, sync_history, service, call, sync_log>>
    /\ UNCHANGED unicef

\* steps 1 to 3 of sync_all in process p: the catalog is synced into current/ and counted,
\* or its failure is put in the errors list
SyncCatalog(p) ==
    /\ Local(p).pc \in {"dataflows", "codelists", "indicators"}
    /\ LET loc == Local(p)
           t == loc.results.synced_at
           run == CASE loc.pc = "dataflows" -> sync_dataflows(current_dir, service, t)
                    [] loc.pc = "codelists" -> sync_codelists(current_dir, service, t)
                    [] loc.pc = "indicators" -> sync_indicators(current_dir, service, t)
           label == CASE loc.pc = "dataflows" -> "Dataflows"
                      [] loc.pc = "codelists" -> "Codelists"
                      [] loc.pc = "indicators" -> "Indicators"
           next == CASE loc.pc = "dataflows" -> "codelists"
                     [] loc.pc = "codelists" -> "indicators"
                     [] loc.pc = "indicators" ->
                            IF loc.create_vintage THEN "exists" ELSE "load_history"
       IN  /\ current_dir' = run.current
           /\ syncing' = Moves(p, next,
                               [loc EXCEPT !.results =
                                   IF run.raised THEN [@ EXCEPT !.errors = Append(@, label)]
                                   ELSE [@ EXCEPT ![loc.pc] = run.n]])
    /\ UNCHANGED <<vintages_dir, sync_history, now, service, call, sync_log>>
    /\ UNCHANGED unicef

\* _create_vintage in process p: 'if vintage_path.exists(): return vintage_path'
VintageExists(p) ==
    /\ Local(p).pc = "exists"
    /\ syncing' = Moves(p, IF Local(p).results.vintage_date \in DOMAIN vintages_dir
                           THEN "load_history" ELSE "mkdir", Local(p))
    /\ UNCHANGED <<current_dir, vintages_dir, sync_history, now, service, call, sync_log>>
    /\ UNCHANGED unicef

\* _create_vintage in process p: vintage_path.mkdir(parents=True, exist_ok=True)
Mkdir(p) ==
    /\ Local(p).pc = "mkdir"
    /\ LET d == Local(p).results.vintage_date
       IN  vintages_dir' = [x \in DOMAIN vintages_dir \cup {d} |->
                               IF x \in DOMAIN vintages_dir THEN vintages_dir[x] ELSE <<>>]
    /\ syncing' = Moves(p, "copy", Local(p))
    /\ UNCHANGED <<current_dir, sync_history, now, service, call, sync_log>>
    /\ UNCHANGED unicef

\* _create_vintage in process p: one turn of the loop over the three file names, the file
\* is copied from current/ when it is there; copied counts the turns made
CopyFile(p) ==
    /\ Local(p).pc = "copy"
    /\ LET loc == Local(p)
           d == loc.results.vintage_date
           filename == <<"dataflows.yaml", "indicators.yaml", "codelists.yaml">>[loc.copied + 1]
           moved == Moves(p, IF loc.copied = 2 THEN "summary" ELSE "copy",
                          [loc EXCEPT !.copied = @ + 1])
       IN  IF filename \in DOMAIN current_dir
           THEN /\ vintages_dir' = [vintages_dir EXCEPT
                                       ![d] = SaveYaml(@, filename, current_dir[filename])]
                /\ syncing' = [moved EXCEPT !.vintage_writes = @ \cup {p}]
           ELSE /\ syncing' = moved
                /\ UNCHANGED vintages_dir
    /\ UNCHANGED <<current_dir, sync_history, now, service, call, sync_log>>
    /\ UNCHANGED unicef

\* _create_vintage in process p: summary.yaml is written
WriteSummary(p) ==
    /\ Local(p).pc = "summary"
    /\ LET d == Local(p).results.vintage_date
       IN  vintages_dir' = [vintages_dir EXCEPT
                               ![d] = SaveYaml(@, "summary.yaml",
                                               VintageSummary(d, Local(p).results))]
    /\ syncing' = [Moves(p, "load_history", Local(p)) EXCEPT !.vintage_writes = @ \cup {p}]
    /\ UNCHANGED <<current_dir, sync_history, now, service, call, sync_log>>
    /\ UNCHANGED unicef

\* _update_sync_history in process p: history = self._load_sync_history()
LoadSyncHistory(p) ==
    /\ Local(p).pc = "load_history"
    /\ syncing' = Moves(p, "write_history", [Local(p) EXCEPT !.history = sync_history])
    /\ UNCHANGED <<current_dir, vintages_dir, sync_history, now, service, call, sync_log>>
    /\ UNCHANGED unicef

\* _update_sync_history in process p: the entry is put in front of the list that was
\* loaded, the list is cut and written to sync_history.yaml; sync_all returns
WriteSyncHistory(p) ==
    /\ Local(p).pc = "write_history"
    /\ sync_history' = UpdateSyncHistory(Local(p).history, Local(p).results)
    /\ syncing' = [Moves(p, "done", Local(p)) EXCEPT !.history_writes = Append(@, p)]
    /\ call' = [op |-> "sync_all", create_vintage |-> Local(p).create_vintage,
                returned |-> TRUE, ret |-> Local(p).results]
    /\ sync_log' = <<[create_vintage |-> Local(p).create_vintage, service |-> service,
                      returned |-> TRUE, results |-> Local(p).results,
                      current |-> current_dir]>> \o sync_log
    /\ UNCHANGED <<current_dir, vintages_dir, now, service>>
    /\ UNCHANGED unicef

NextConcurrent ==
    \E p \in Procs :
        \/ BeginSyncAll(p)
        \/ SyncCatalog(p)
        \/ VintageExists(p)
        \/ Mkdir(p)
        \/ CopyFile(p)
        \/ WriteSummary(p)
        \/ LoadSyncHistory(p)
        \/ WriteSyncHistory(p)

\* two processes call sync_all on a new cache directory
SpecConcurrent == InitSync /\ [][NextConcurrent]_vars

\* ------------------------------------------------------------- properties
\* the dataflows the fetcher was called on for the current indicator, in call order
AttemptedDataflows == [i \in 1..Len(attempts) |-> attempts[i].dataflow]

\* s without the later copies of its elements
FirstSeenOrder(s) ==
    LET idx == {i \in 1..Len(s) : \A j \in 1..(i - 1) : s[j] # s[i]}
        Nth[k \in 0..Len(s)] ==
            IF k = 0 THEN <<>> ELSE IF k \in idx THEN Nth[k - 1] \o <<s[k]>> ELSE Nth[k - 1]
    IN Nth[Len(s)]

\* initial dataflow, prefix alternatives in table order, GLOBAL_DATAFLOW
DocumentedCandidates(indicator_code, d) ==
    <<d>> \o (IF Prefix(indicator_code) \in DOMAIN DATAFLOW_ALTERNATIVES
              THEN DATAFLOW_ALTERNATIVES[Prefix(indicator_code)] ELSE <<>>)
          \o <<GLOBAL_DATAFLOW>>

NoRepeat(s) == \A i, j \in 1..Len(s) : s[i] = s[j] => i = j

AllNotFound == attempts # <<>> /\ \A i \in 1..Len(attempts) : attempts[i].outcome.error = NOT_FOUND

\* C1: while every candidate answers not-found, the fetcher is called once on each distinct
\* candidate in the order initial dataflow, prefix alternatives, GLOBAL_DATAFLOW; the loop
\* goes on as long as a candidate is left and only then returns the empty table
C1_AllCandidatesTriedInOrder ==
    (pc \in {"try", "returned"} /\ AllNotFound) =>
        LET want == FirstSeenOrder(DocumentedCandidates(indicators[ind_pos], dataflow))
        IN /\ Len(attempts) <= Len(want)
           /\ AttemptedDataflows = SubSeq(want, 1, Len(attempts))
           /\ NoRepeat(AttemptedDataflows)
           /\ raised = NONE
           /\ (pc = "returned") = (Len(attempts) = Len(want))
           /\ pc = "returned" => IsEmpty(ret)

C1_Witness ==
    pc = "returned" /\ AllNotFound /\ Len(attempts) >= 4 /\ IsEmpty(ret)

\* C2: a failure other than not-found ends the fetch at the candidate that raised it:
\* that failure is raised by get_unicef, no later candidate is fetched, no table is returned
C2_OtherFailurePropagates ==
    \A i \in 1..Len(attempts) :
        attempts[i].outcome.error \in OtherErrors =>
            /\ i = Len(attempts)
            /\ raised = attempts[i].outcome.error
            /\ pc = "done"
            /\ output = <<>>

C2_Witness ==
    /\ Len(attempts) >= 3
    /\ attempts[Len(attempts)].outcome.error \in OtherErrors
    /\ raised = attempts[Len(attempts)].outcome.error

\* candidate i answered a non-empty table
YieldsData(i) == attempts[i].outcome.error = NONE /\ ~IsEmpty(attempts[i].outcome.df)

\* C3: a candidate that answers a non-empty table is the last one fetched and its table is
\* what the fetch returns; a non-empty table returned comes from the first candidate in list
\* order that answered one
C3_FirstDataWins ==
    /\ \A i \in 1..Len(attempts) :
           YieldsData(i) => /\ i = Len(attempts)
                            /\ pc # "try"
                            /\ ret = attempts[i].outcome.df
                            /\ attempts[i].dataflow = dataflows_to_try[i]
    /\ (pc = "returned" /\ ~IsEmpty(ret)) =>
           /\ YieldsData(Len(attempts))
           /\ \A j \in 1..(Len(attempts) - 1) : ~YieldsData(j)

C3_Witness ==
    pc = "returned" /\ Len(attempts) >= 3 /\ YieldsData(Len(attempts)) /\ ret = attempts[Len(attempts)].outcome.df

\* no fetcher call of the current indicator produced data or a failure other than not-found
NoDataSoFar ==
    \A i \in 1..Len(attempts) :
        attempts[i].outcome.error \in {NONE, NOT_FOUND} /\ IsEmpty(attempts[i].outcome.df)

C5_GlobalDataflowLast ==
    dataflows_to_try # <<>> => dataflows_to_try[Len(dataflows_to_try)] = GLOBAL_DATAFLOW

\* C6: the candidate list holds no dataflow twice, holds the initial dataflow, the prefix
\* alternatives and GLOBAL_DATAFLOW and nothing else, in the order of their first occurrence
\* in (initial dataflow, alternatives, GLOBAL_DATAFLOW)
C6_NoDuplicateCandidates ==
    dataflows_to_try # <<>> =>
        LET doc == DocumentedCandidates(indicators[ind_pos], dataflow)
            first(x) == CHOOSE i \in 1..Len(doc) : doc[i] = x /\ \A j \in 1..(i - 1) : doc[j] # x
        IN /\ NoRepeat(dataflows_to_try)
           /\ {dataflows_to_try[i] : i \in 1..Len(dataflows_to_try)} = {doc[i] : i \in 1..Len(doc)}
           /\ dataflows_to_try[1] = dataflow
           /\ \A i, j \in 1..Len(dataflows_to_try) :
                  i < j => first(dataflows_to_try[i]) < first(dataflows_to_try[j])

C6_Witness ==
    /\ Len(dataflows_to_try) >= 3
    /\ Len(dataflows_to_try) < Len(DocumentedCandidates(indicators[ind_pos], dataflow))

\* C7: without a dataflow argument, the first dataflow tried for each indicator of a list is
\* the one get_dataflow_for_indicator gives for that indicator
C7_OwnPrimaryDataflowFirst ==
    (dataflow_arg = NONE /\ Len(indicators) > 1 /\ attempts # <<>>) =>
        attempts[1].dataflow = get_dataflow_for_indicator(indicators[ind_pos])

\* the rows of the tables of s, one table after the other
RECURSIVE RowsInOrder(_)
RowsInOrder(s) == IF s = <<>> THEN <<>> ELSE Head(s).rows \o RowsInOrder(Tail(s))

\* C8: the table _fetch_with_fallback returns holds the rows each indicator's fetch returned,
\* in request order; an indicator without data adds no row and takes none away
C8_UnionInRequestOrder ==
    pc \in {"fetched", "done"} /\ Len(fetched) = Len(indicators) =>
        /\ unioned.rows = RowsInOrder(fetched)
        /\ Len(unioned.rows) = Len(RowsInOrder(dfs))
        /\ \A i \in 1..Len(fetched) : \A k \in 1..Len(fetched[i].rows) :
               InSeq(fetched[i].rows[k], unioned.rows)

C8_Witness ==
    /\ pc = "fetched"
    /\ Len(fetched) = 2
    /\ ~IsEmpty(fetched[1]) /\ ~IsEmpty(fetched[2])
    /\ fetched[1].rows # fetched[2].rows
    /\ Len(unioned.rows) = 2

\* the table has two rows equal in every column
HasIdenticalRows(df) == \E i, j \in 1..Len(df.rows) : i # j /\ df.rows[i] = df.rows[j]

\* rows minus distinct rows
Surplus(df) == Len(df.rows) - Cardinality({df.rows[i] : i \in 1..Len(df.rows)})

\* C9: with ignore_duplicates unset, a table with identical rows makes get_unicef raise and
\* return no table; the count reported is the number of rows minus the number of distinct
\* rows of the table the check looks at
C9_DuplicatesRaise ==
    (pc = "done" /\ ~raw /\ ~ignore_duplicates) =>
        /\ HasIdenticalRows(unioned) => raised = "ValueError"
        /\ (raised = "ValueError") = (Surplus(Standardize(unioned)) > 0)
        /\ raised = "ValueError" => /\ n_duplicates = Surplus(Standardize(unioned))
                                    /\ output = <<>>
        /\ (Len(unioned.rows) = 2 /\ HasIdenticalRows(unioned)) => n_duplicates = 1

C9_Witness ==
    /\ pc = "done" /\ ~raw /\ ~ignore_duplicates
    /\ HasIdenticalRows(unioned)
    /\ raised = "ValueError"
    /\ n_duplicates = 2
    /\ output = <<>>

\* C10: with ignore_duplicates set, the table returned holds every distinct row once, at the
\* place of its first occurrence, the kept rows in their original order; nothing is raised,
\* and a warning is emitted when rows were removed
C10_KeepFirstOccurrence ==
    (pc = "done" /\ ~raw /\ ignore_duplicates) =>
        LET t == Standardize(unioned).rows
            first(x) == CHOOSE i \in 1..Len(t) : t[i] = x /\ \A j \in 1..(i - 1) : t[j] # x
        IN /\ raised = NONE
           /\ Len(output) = 1
           /\ NoRepeat(output[1].rows)
           /\ {output[1].rows[i] : i \in 1..Len(output[1].rows)} = {t[i] : i \in 1..Len(t)}
           /\ \A i, j \in 1..Len(output[1].rows) :
                  i < j => first(output[1].rows[i]) < first(output[1].rows[j])
           /\ output[1].cols = Standardize(unioned).cols
           /\ warned = (Surplus(Standardize(unioned)) > 0)

C10_Witness ==
    /\ pc = "done" /\ ~raw /\ ignore_duplicates
    /\ Len(unioned.rows) = 3
    /\ unioned.rows[1] = unioned.rows[3]
    /\ unioned.rows[1] # unioned.rows[2]
    /\ Len(output) = 1 /\ Len(output[1].rows) = 2
    /\ warned

\* the post-production stages ran in this call
PostProcessed == pc = "done" /\ stages # <<>>

\* the call has the given stage among those it entered
Entered(stage) == \E i \in 1..Len(stages) : stages[i].stage = stage

\* C11: the duplicate-row error is the only failure the post-processing of get_unicef
\* raises: on a non-empty fetched table without exact duplicates, or with ignore_duplicates
\* set, every stage that runs completes and the call returns a table, whatever add_metadata,
\* dropna, mrv, latest, format and simplify are
C11_OnlyDuplicatesRaise ==
    PostProcessed =>
        /\ raised \in {NONE, "ValueError"}
        /\ (n_duplicates = 0 \/ ignore_duplicates) => (raised = NONE /\ Len(output) = 1)

\* the order of the stages as documented
DocumentedStages ==
    <<"normalize", "duplicates", "metadata", "dropna", "mrv", "latest", "format", "simplify">>

\* the option that switches a stage on is set
Requested(stage) ==
    CASE stage = "metadata" -> add_metadata # {}
      [] stage = "dropna" -> dropna
      [] stage = "mrv" -> mrv > 0
      [] stage = "latest" -> latest
      [] stage = "format" -> format # "long"
      [] stage = "simplify" -> simplify
      [] OTHER -> TRUE

\* C12: the stages a call enters are entered in the one order normalization, duplicate
\* detection, metadata, missing-value filter, most-recent-N, latest, shape, projection, each
\* only when its option is set and each one that is set unless an earlier one failed; the
\* duplicate detection is entered exactly once, right after the normalization, on as many
\* rows as the unioned table has
C12_StagesInFixedOrder ==
    (pc = "done" /\ ~raw /\ ~IsEmpty(unioned)) =>
        /\ \A i, j \in 1..Len(stages) :
              i < j => IndexOf(DocumentedStages, stages[i].stage)
                           < IndexOf(DocumentedStages, stages[j].stage)
        /\ \A i \in 1..Len(stages) : Requested(stages[i].stage)
        /\ raised = NONE =>
              \A k \in 1..Len(DocumentedStages) :
                  Requested(DocumentedStages[k]) => Entered(DocumentedStages[k])
        /\ Cardinality({i \in 1..Len(stages) : stages[i].stage = "duplicates"}) = 1
        /\ Len(stages) >= 2
        /\ stages[1].stage = "normalize"
        /\ stages[2].stage = "duplicates"
        /\ stages[2].rows_in = Len(unioned.rows)

C12_Witness ==
    /\ pc = "done"
    /\ raised = NONE
    /\ Len(stages) = 6
    /\ n_duplicates = 0
    /\ Len(output[1].rows) < Len(unioned.rows)
    /\ Len(output[1].rows) > 0

\* the rows of a table as a set
RowSet(df) == {df.rows[i] : i \in 1..Len(df.rows)}

\* the unioned table under the standard column names
Normalized == Standardize(unioned)

\* the columns that make a group: the country, and the indicator when there is one
GroupCols(df) == {"iso3", "indicator"} \cap df.cols

\* the call went through the duplicate check without raising
PassedDuplicates == pc = "done" /\ Entered("duplicates") /\ raised # "ValueError"

\* no option-driven stage other than those named is requested
OnlyRequested(named) ==
    \A k \in 3..Len(DocumentedStages) :
        Requested(DocumentedStages[k]) => DocumentedStages[k] \in named

\* the rows of df whose period is among the n greatest distinct periods of their group
MostRecentRows(df, n) ==
    {r \in RowSet(df) :
        Cardinality({s["period"] : s \in {t \in RowSet(df) :
            /\ SameGroup(t, r, GroupCols(df))
            /\ CellBefore("period", r["period"], t["period"])}}) < n}

\* C13: with mrv = N alone, get_unicef returns, per country and indicator, the rows of the
\* group's N most recent distinct periods and no other row
C13_MrvKeepsRecentPeriods ==
    (PassedDuplicates /\ n_duplicates = 0 /\ mrv > 0 /\ OnlyRequested({"mrv"})) =>
        /\ Len(output) = 1
        /\ RowSet(output[1]) = MostRecentRows(Normalized, mrv)

\* the groups of df that have a value, and for each the rows of its greatest period among
\* those with a value
GroupsWithValue(df) ==
    {[c \in GroupCols(df) |-> r[c]] : r \in {s \in RowSet(df) : s["value"] # NaN}}

LatestRows(df) ==
    {r \in RowSet(df) :
        /\ r["value"] # NaN
        /\ \A s \in RowSet(df) :
              (SameGroup(s, r, GroupCols(df)) /\ s["value"] # NaN)
                  => ~CellBefore("period", r["period"], s["period"])}

\* C14: with latest alone, get_unicef returns exactly one row for every country and
\* indicator that has a value: a row of the group's greatest period among its rows with a
\* value, the rows without a value being dropped first whatever dropna is
C14_LatestOneRowPerGroup ==
    (PassedDuplicates /\ n_duplicates = 0 /\ latest /\ OnlyRequested({"latest", "dropna"})) =>
        /\ Len(output) = 1
        /\ RowSet(output[1]) \subseteq LatestRows(Normalized)
        /\ Len(output[1].rows) = Cardinality(GroupsWithValue(Normalized))
        /\ \A g \in GroupsWithValue(Normalized) :
              \E r \in RowSet(output[1]) : \A c \in DOMAIN g : r[c] = g[c]

\* what get_unicef hands back on the unioned table under the options o
PostOutcome(o) ==
    RunStages([df |-> unioned, err |-> NONE, n_duplicates |-> 0, warned |-> FALSE,
               trace |-> <<>>], StageOrder, o)

\* C15: mrv = 1 is equivalent to latest = True: on the same fetched table and with the other
\* options equal, both calls return a table and the two tables hold the same set of rows
C15_MrvOneIsLatest ==
    (PassedDuplicates /\ mrv = 1 /\ ~latest) =>
        LET other == PostOutcome([Options EXCEPT !.mrv = 0, !.latest = TRUE])
        IN /\ Len(output) = 1
           /\ other.err = NONE
           /\ RowSet(output[1]) = RowSet(other.df)

\* the column of a wide table that holds the country
CountryCol(df) == IF "iso3" \in df.cols THEN "iso3" ELSE "country_code"

\* every pair of country and period occurs once
PairsOnce(df) ==
    \A i, j \in 1..Len(df.rows) :
        (df.rows[i]["iso3"] = df.rows[j]["iso3"] /\ df.rows[i]["period"] = df.rows[j]["period"])
            => i = j

\* C16: format = "wide" on a single-indicator table in which every pair of country and
\* period occurs once gives one row per country and one column per distinct period, each
\* cell holding the value of its pair in the long table
C16_WideOneRowPerCountry ==
    (PassedDuplicates /\ format = "wide" /\ OnlyRequested({"format"}) /\ PairsOnce(Normalized)) =>
        /\ Len(output) = 1
        /\ LET wide == output[1]
               periods == {ToString(r["period"].n) : r \in RowSet(Normalized)}
           IN /\ Len(wide.rows) = Cardinality({r["iso3"] : r \in RowSet(Normalized)})
              /\ periods \subseteq wide.cols
              /\ Cardinality(wide.cols \ {"iso3", "country", "country_code", "country_name"})
                     = Cardinality(periods)
              /\ \A r \in RowSet(Normalized) :
                    \E w \in RowSet(wide) :
                        /\ w[CountryCol(wide)] = r["iso3"]
                        /\ w[ToString(r["period"].n)] = r["value"]

\* the essential columns under the standard names
EssentialColumns == {"iso3", "country", "indicator", "period", "value"}

\* C17: with simplify, a long table is returned with exactly the essential columns it had
\* (country code, country name, indicator code, period, value) and the enrichment columns
\* that were added
C17_SimplifyKeepsEssential ==
    (PassedDuplicates /\ simplify /\ Len(output) = 1 /\ "value" \in output[1].cols) =>
        /\ output[1].cols \cap EssentialColumns = Normalized.cols \cap EssentialColumns
        /\ output[1].cols \subseteq EssentialColumns \cup add_metadata

\* C18: every field named in add_metadata becomes a column of the output, with a missing
\* cell for an unknown code and never a failure, and no row is added or removed
C18_MetadataColumnsAdded ==
    (PassedDuplicates /\ add_metadata # {} /\ OnlyRequested({"metadata"})) =>
        /\ raised = NONE
        /\ Len(output) = 1
        /\ add_metadata \subseteq output[1].cols
        /\ Len(output[1].rows) = Len(unioned.rows) - n_duplicates

\* C19: in the wide format with country metadata requested, every country that has a value
\* in the long table has a row in the output, also when its region, income group or
\* continent is missing
C19_WideKeepsCountriesWithoutMetadata ==
    (PassedDuplicates /\ format = "wide" /\ add_metadata \cap PivotMetadataCols # {}
         /\ OnlyRequested({"format", "metadata"})) =>
        /\ Len(output) = 1
        /\ \A r \in RowSet(Normalized) :
              r["value"] # NaN =>
                  \E w \in RowSet(output[1]) : w[CountryCol(output[1])] = r["iso3"]

\* floor of the fraction q
Floor(q) == q.num \div q.den

\* C20: the encoding year + month/12 of a monthly period keeps the year: for every year and
\* every month 1..12 the floor of the encoded period is the year of the TIME_PERIOD text
C20_DecimalYearKeepsYear ==
    (decimal_year # <<>> /\ PeriodMonth(time_period) \in 1..12) =>
        Floor(decimal_year[1]) = PeriodYear(time_period)

\* the sync_all runs of the log that had create_vintage=True on the date d, as positions
\* of sync_log (the newest run is at position 1)
VintageRuns(d) ==
    {i \in 1..Len(sync_log) : sync_log[i].create_vintage /\ sync_log[i].results.vintage_date = d}

\* the dates on which a sync_all run had create_vintage=True
VintageRunDates ==
    {sync_log[i].results.vintage_date : i \in {j \in 1..Len(sync_log) : sync_log[j].create_vintage}}

\* the first sync_all run with create_vintage=True on the date d
FirstVintageRun(d) == sync_log[CHOOSE i \in VintageRuns(d) : \A j \in VintageRuns(d) : j <= i]

\* C21: vintage creation is create-if-absent: after any number of sync_all runs with
\* create_vintage=True on one date there is one vintage directory for that date, and its
\* files are the copies of current/ and the summary the first of these runs wrote; later
\* runs never rewrite a file of it
C21_VintageCreatedOnce ==
    /\ DOMAIN vintages_dir = VintageRunDates
    /\ \A d \in VintageRunDates :
          vintages_dir[d] = VintageOf(FirstVintageRun(d).current, d, FirstVintageRun(d).results)

\* two runs with create_vintage=True on one date, the second of which has overwritten
\* current/ while the vintage still holds the files of the first
C21_Witness ==
    /\ Len(sync_log) >= 2
    /\ sync_log[1].create_vintage
    /\ sync_log[2].create_vintage
    /\ sync_log[1].results.vintage_date = sync_log[2].results.vintage_date
    /\ vintages_dir[sync_log[1].results.vintage_date]["indicators.yaml"]
           # current_dir["indicators.yaml"]
    /\ vintages_dir[sync_log[1].results.vintage_date]["indicators.yaml"]
           = sync_log[2].current["indicators.yaml"]

\* the directory a vintage argument names: current/ for None
NamedDir(vintage) == IF vintage = <<>> THEN current_dir ELSE vintages_dir[vintage[1]]

\* the identifiers a snapshot directory holds in the catalog file under key
IdsIn(dir, filename, key) ==
    IF filename \in DOMAIN dir THEN DOMAIN dir[filename][key] ELSE {}

\* compare_vintages has returned its report
Compared == call.op = "compare_vintages" /\ call.ret # <<>>

\* C22: compare_vintages(v1, v2) reports as added the dataflow and indicator identifiers
\* of v2 that v1 lacks and as removed those of v1 that v2 lacks, v2 being current/ when
\* it is not given; an indicator v1 lacks and current/ holds is in added, and nothing is
\* in removed when current/ holds every identifier of v1
C22_CompareReportsDifferences ==
    Compared =>
        LET dir1 == NamedDir(call.vintage1)
            dir2 == NamedDir(call.vintage2)
            report == call.ret[1]
        IN  /\ report.dataflows.added
                  = {id \in IdsIn(dir2, "dataflows.yaml", "dataflows") :
                        id \notin IdsIn(dir1, "dataflows.yaml", "dataflows")}
            /\ report.dataflows.removed
                  = {id \in IdsIn(dir1, "dataflows.yaml", "dataflows") :
                        id \notin IdsIn(dir2, "dataflows.yaml", "dataflows")}
            /\ report.indicators.added
                  = {code \in IdsIn(dir2, "indicators.yaml", "indicators") :
                        code \notin IdsIn(dir1, "indicators.yaml", "indicators")}
            /\ report.indicators.removed
                  = {code \in IdsIn(dir1, "indicators.yaml", "indicators") :
                        code \notin IdsIn(dir2, "indicators.yaml", "indicators")}

\* a vintage without NT_ANT_WHZ_NE2 was compared with current/, which holds it: the
\* indicator is reported as added and nothing as removed
C22_Witness ==
    /\ Compared
    /\ call.vintage2 = <<>>
    /\ NT_ANT_WHZ_NE2 \in IdsIn(current_dir, "indicators.yaml", "indicators")
    /\ NT_ANT_WHZ_NE2 \notin IdsIn(NamedDir(call.vintage1), "indicators.yaml", "indicators")
    /\ call.ret[1].indicators.added = {NT_ANT_WHZ_NE2}
    /\ call.ret[1].indicators.removed = {}

\* ensure_synced has returned
Ensured == call.op = "ensure_synced"

\* the sync history the last ensure_synced call found: the call has put one entry in
\* front of it when it returned True
HistoryFound == IF call.ret THEN Tail(sync_history) ELSE sync_history

\* there is no sync history, or its newest entry is older at tick t than max_age_days
\* days, by any amount
OlderThan(history, t, max_age_days) ==
    \/ history = <<>>
    \/ t - history[1].synced_at > max_age_days * TicksPerDay

\* C23: ensure_synced(max_age_days) returns false and syncs nothing when the newest
\* history entry is younger than max_age_days days, and returns true after a sync_all when
\* that entry is older than max_age_days days, by any amount and be it less than a day, or
\* when there is no history
C23_SyncsWhenOlderThanThreshold ==
    Ensured =>
        /\ call.ret = OlderThan(HistoryFound, call.at, call.max_age_days)
        /\ call.ret => (sync_history # <<>> /\ sync_history[1].synced_at = call.at)
        /\ ~call.ret => \A i \in 1..Len(sync_history) : sync_history[i].synced_at # call.at

\* C24: after any sequence of sync_all runs by one process the sync history holds at most
\* 50 entries, newest first, and they are the min(50, number of runs) most recent runs:
\* each run puts one entry in front and only the oldest entries are dropped
C24_HistoryKeepsNewestFifty ==
    /\ Len(sync_history) <= 50
    /\ Len(sync_history) = (IF Len(sync_log) < 50 THEN Len(sync_log) ELSE 50)
    /\ \A i \in 1..Len(sync_history) : sync_history[i] = sync_log[i].results
    /\ \A i \in 1..(Len(sync_history) - 1) :
          sync_history[i].synced_at > sync_history[i + 1].synced_at

\* more than 50 runs were made and the history holds the 50 newest of them
C24_Witness ==
    /\ Len(sync_log) > 50
    /\ Len(sync_history) = 50
    /\ sync_history[50] = sync_log[50].results
    /\ sync_history[1].synced_at = now - 1

\* the catalogs for which the reference service failed in a logged sync_all run
FailedCatalogs(run) ==
    (IF run.service.dataflows.ok THEN {} ELSE {"Dataflows"})
    \cup (IF \A cl_id \in Range(codelist_ids) : run.service.codelists[cl_id].ok
          THEN {} ELSE {"Codelists"})

\* C25: every catalog whose sync fails contributes an entry naming it to the errors list
\* of the summary: a sync_all run in which the reference service failed for a catalog
\* never returns a summary with an empty errors list
C25_FailedCatalogsAreReported ==
    \A i \in 1..Len(sync_log) :
        /\ FailedCatalogs(sync_log[i]) \subseteq Range(sync_log[i].results.errors)
        /\ FailedCatalogs(sync_log[i]) # {} => sync_log[i].results.errors # <<>>

\* the catalog file of current/ was written by the run that made the summary
WrittenBy(run, filename) ==
    /\ filename \in DOMAIN run.current
    /\ run.current[filename].synced_at = run.results.synced_at

\* C26: a failure while syncing one catalog never aborts sync_all: whatever subset of the
\* catalogs fails, the remaining catalogs are still synced, the vintage step and the
\* history update still run, and sync_all returns its summary
C26_FailureNeverAborts ==
    \A i \in 1..Len(sync_log) :
        LET run == sync_log[i]
        IN  /\ run.returned
            /\ run.service.dataflows.ok => WrittenBy(run, "dataflows.yaml")
            /\ WrittenBy(run, "codelists.yaml")
            /\ WrittenBy(run, "indicators.yaml")
            /\ run.create_vintage => run.results.vintage_date \in DOMAIN vintages_dir
            /\ \E k \in 1..Len(sync_history) : sync_history[k] = run.results

\* two runs were made, one in which the dataflows and the codelists both failed and one
\* in which the dataflows alone failed; both returned, the later one made a vintage
C26_Witness ==
    /\ Len(sync_log) = 2
    /\ {FailedCatalogs(sync_log[1]), FailedCatalogs(sync_log[2])}
           = {{"Dataflows"}, {"Dataflows", "Codelists"}}
    /\ call.op = "sync_all"
    /\ call.returned
    /\ call.create_vintage
    /\ call.ret.errors = <<"Dataflows">>
    /\ Len(sync_history) = 2

\* validate_dataframe has returned its (is_valid, issues) pair
Validated == call.op = "validate_dataframe" /\ call.returned /\ call.ret # <<>>

\* no required column is missing from the validated table
HasRequiredColumns == Range(required_cols) \subseteq call.df.cols

\* C27: validate_dataframe in non-strict mode returns valid exactly when none of
\* REF_AREA, TIME_PERIOD, OBS_VALUE is missing: an unknown indicator, unrecognized country
\* codes, an empty table or more than 50% missing values add an issue and leave the result
\* valid; in strict mode it returns valid exactly when the issue list is empty
C27_ValidUnlessRequiredColumnMissing ==
    Validated =>
        /\ ~call.strict => (call.ret[1].is_valid <=> HasRequiredColumns)
        /\ call.strict => (call.ret[1].is_valid <=> call.ret[1].issues = <<>>)
        /\ Len(call.df.rows) = 0 => EmptyFrameIssue \in Range(call.ret[1].issues)

\* C28: with raw=True get_unicef returns the unioned fetch result exactly as fetched,
\* whatever the other options are: no stage is entered, no duplicate is counted or
\* reported, nothing is raised
C28_RawReturnsFetchedTable ==
    (pc = "done" /\ raw) =>
        /\ output = <<unioned>>
        /\ stages = <<>>
        /\ n_duplicates = 0
        /\ ~warned
        /\ raised = NONE

\* a raw call with every option set returned a table with an exact duplicate and a
\* missing value as it was fetched
C28_Witness ==
    /\ pc = "done"
    /\ raw
    /\ ~ignore_duplicates
    /\ format = "wide"
    /\ latest
    /\ dropna
    /\ simplify
    /\ mrv = 1
    /\ add_metadata # {}
    /\ Len(unioned.rows) = 2
    /\ unioned.rows[1] = unioned.rows[2]
    /\ unioned.rows[1]["OBS_VALUE"] = NaN
    /\ output = <<unioned>>

\* a load function has just been called
LoadStep == call'.op = "load" /\ call' # call

\* the content of a catalog file of a directory, {} when the file does not exist
FileOf(dir, filename) == IF filename \in DOMAIN dir THEN dir[filename] ELSE <<>>

\* C29: the load functions read current/ when no vintage is given and the copy of the named
\* vintage otherwise; naming a vintage that has no directory raises an error instead of
\* returning current or empty data; loading never modifies a stored file
C29_LoadReadsNamedVintage ==
    [][LoadStep =>
          /\ UNCHANGED <<current_dir, vintages_dir, sync_history>>
          /\ call'.vintage = <<>> => call'.ret = <<FileOf(current_dir, call'.filename)>>
          /\ (call'.vintage # <<>> /\ call'.vintage[1] \notin DOMAIN vintages_dir)
                 => call'.ret = <<>>
          /\ (call'.vintage # <<>> /\ call'.vintage[1] \in DOMAIN vintages_dir)
                 => call'.ret = <<FileOf(vintages_dir[call'.vintage[1]], call'.filename)>>]_vars

\* the indicators of a vintage were loaded while current/ holds a later catalog
C29_Witness ==
    /\ call.op = "load"
    /\ call.filename = "indicators.yaml"
    /\ call.vintage # <<>>
    /\ call.ret # <<>>
    /\ call.ret[1] = vintages_dir[call.vintage[1]]["indicators.yaml"]
    /\ call.ret[1] # current_dir["indicators.yaml"]

\* the dates of the runs at the positions i.. of sync_log that created a vintage, each
\* date once, the date of the newest run first
RECURSIVE CreatedDatesFrom(_)
CreatedDatesFrom(i) ==
    IF i > Len(sync_log) THEN <<>>
    ELSE LET d == sync_log[i].results.vintage_date
             newer == {sync_log[j].results.vintage_date :
                          j \in {k \in 1..(i - 1) : sync_log[k].create_vintage}}
         IN  (IF sync_log[i].create_vintage /\ d \notin newer THEN <<d>> ELSE <<>>)
             \o CreatedDatesFrom(i + 1)

\* list_vintages has returned
Listed == call.op = "list_vintages"

\* C30: after any sequence of sync_all runs list_vintages returns exactly the dates for
\* which a vintage directory was created, newest first, and every vintage the load
\* functions accept is one list_vintages reports
C30_ListReportsEveryVintage ==
    Listed =>
        /\ call.ret = CreatedDatesFrom(1)
        /\ \A d \in DOMAIN vintages_dir :
              Load(Cache, "indicators.yaml", <<d>>) # <<>> => d \in Range(call.ret)

\* candidate i answered without failure and with an empty table
AnswersEmpty(i) == attempts[i].outcome.error = NONE /\ IsEmpty(attempts[i].outcome.df)

\* C31: a candidate that answers an empty table without failure does not end the fetch
\* while a candidate is left: the loop goes on to the next one and nothing is raised; at
\* the last candidate the fetch returns the empty table and raises nothing; the fetch
\* returns an empty table only after the last candidate, none having yielded data
C31_EmptyAnswerIsWrongGuess ==
    /\ \A i \in 1..Len(attempts) :
           (AnswersEmpty(i) /\ i = Len(attempts)) =>
               IF i < Len(dataflows_to_try)
               THEN pc = "try" /\ raised = NONE
               ELSE pc # "try" /\ IsEmpty(ret) /\ (pc = "returned" => raised = NONE)
    /\ (pc = "returned" /\ IsEmpty(ret)) =>
           /\ Len(attempts) = Len(dataflows_to_try)
           /\ \A j \in 1..Len(attempts) : ~YieldsData(j)

C31_Witness ==
    /\ pc = "returned"
    /\ Len(attempts) >= 3
    /\ AnswersEmpty(1)
    /\ attempts[2].outcome.error = NOT_FOUND
    /\ YieldsData(Len(attempts))
    /\ ret = attempts[Len(attempts)].outcome.df

\* the countries that have at least one row with a value in df
CountriesWithValue(df) == {r["iso3"] : r \in {s \in RowSet(df) : s["value"] # NaN}}

\* C32: with mrv = N and latest given together, whatever the other options, get_unicef
\* returns a table in which every country that has a value in the fetched data has a row
C32_LatestWithMrvKeepsEveryCountry ==
    (PassedDuplicates /\ mrv > 0 /\ latest) =>
        /\ Len(output) = 1
        /\ \A iso \in CountriesWithValue(Normalized) :
              \E r \in RowSet(output[1]) : r[CountryCol(output[1])] = iso

\* _apply_format was called with format = "wide_indicators" and has ended
FormatApplied == pc = "done" /\ stages = <<>> /\ result # EmptyTable /\ format = "wide_indicators"

\* the indicators of the rows of df
IndicatorsOf(df) == {df.rows[i]["indicator_code"] : i \in 1..Len(df.rows)}

\* C33: _apply_format with format = "wide_indicators" on a table that has no indicator
\* column, or exactly one distinct indicator, raises nothing and returns the table with
\* the same rows and columns, and the warning is printed
C33_WideIndicatorsNoOpOnSingleIndicator ==
    (FormatApplied /\ ("indicator_code" \in result.cols => Cardinality(IndicatorsOf(result)) = 1)) =>
        /\ raised = NONE
        /\ output = <<result>>
        /\ warned

C33_Witness ==
    /\ FormatApplied
    /\ "indicator_code" \in result.cols
    /\ Len(result.rows) = 2
    /\ result.rows[1]["country_code"] # result.rows[2]["country_code"]
    /\ Cardinality(IndicatorsOf(result)) = 1
    /\ output = <<result>>
    /\ warned

\* the dataflows both directories hold, with a different version in each
ChangedDataflows(dir1, dir2) ==
    {id \in IdsIn(dir1, "dataflows.yaml", "dataflows") \cap IdsIn(dir2, "dataflows.yaml", "dataflows") :
        dir1["dataflows.yaml"].dataflows[id].version # dir2["dataflows.yaml"].dataflows[id].version}

\* C34: compare_vintages reports in the 'changed' list of the dataflows every dataflow
\* that both vintages hold with a different descriptor (here: a different version)
C34_CompareReportsChanged ==
    Compared =>
        ChangedDataflows(NamedDir(call.vintage1), NamedDir(call.vintage2))
            \subseteq call.ret[1].dataflows.changed

\* the last call was an ensure_synced made at the tick the newest sync_all run ended
EnsuredRightAfterSync ==
    Ensured /\ sync_log # <<>> /\ call.at = sync_log[1].results.synced_at + 1

\* C35: every sync_all run, failed catalogs or not, puts one entry with its sync time in
\* front of the history, and an ensure_synced call (threshold >= 0) made directly after
\* the run returns False and runs no sync
C35_FreshAfterAnySync ==
    /\ Len(sync_history) = Len(sync_log)
    /\ \A i \in 1..Len(sync_log) : sync_history[i].synced_at = sync_log[i].results.synced_at
    /\ EnsuredRightAfterSync => call.ret = FALSE

\* ensure_synced(0) right after a sync_all during which the service failed for the
\* dataflows and for every codelist
C35_Witness ==
    /\ EnsuredRightAfterSync
    /\ call.max_age_days = 0
    /\ call.ret = FALSE
    /\ ~sync_log[1].service.dataflows.ok
    /\ sync_log[1].service.codelists = CodelistsFailing
    /\ sync_log[1].results.errors # <<>>
    /\ Len(sync_history) = 1

\* current/ as the i-th newest logged sync_all run found it
CurrentBefore(i) == IF i = Len(sync_log) THEN <<>> ELSE sync_log[i + 1].current

\* the file of a catalog in current/
CatalogFile(catalog) == IF catalog = "Dataflows" THEN "dataflows.yaml" ELSE "codelists.yaml"

\* C36: a sync_all run during which the reference service failed for a catalog leaves that
\* catalog's file in current/ as the run found it: absent when it was absent, with the
\* same content otherwise
C36_FailedSyncKeepsCachedCatalog ==
    \A i \in 1..Len(sync_log) :
        \A catalog \in FailedCatalogs(sync_log[i]) :
            LoadYamlFromPath(sync_log[i].current, CatalogFile(catalog))
                = LoadYamlFromPath(CurrentBefore(i), CatalogFile(catalog))

\* the counts of the summary of a vintage directory equal the numbers of entries of the
\* catalog files the directory holds, a catalog without file counting for none
SelfConsistent(dir) ==
    /\ dir["summary.yaml"].dataflows = Cardinality(IdsIn(dir, "dataflows.yaml", "dataflows"))
    /\ dir["summary.yaml"].indicators = Cardinality(IdsIn(dir, "indicators.yaml", "indicators"))
    /\ dir["summary.yaml"].codelists = Cardinality(IdsIn(dir, "codelists.yaml", "codelists"))

\* C37: after any sequence of syncs, partial failures included, the dataflow, indicator
\* and codelist counts of every vintage's summary equal the numbers of entries of the
\* catalog files copied into that vintage
C37_VintageSelfConsistent ==
    \A d \in DOMAIN vintages_dir : SelfConsistent(vintages_dir[d])

\* the fetch of the current indicator ended in a failure other than not-found
FetchFailed ==
    \E i \in 1..Len(attempts) : attempts[i].outcome.error \in OtherErrors

\* C38: when the fetch of a requested indicator ends in a failure other than not-found,
\* get_unicef ends there raising that failure: no table is returned, whatever the earlier
\* indicators have yielded, the tables fetched are never concatenated, and the indicators
\* after the failing one are not fetched
C38_FailureDiscardsEarlierRows ==
    FetchFailed =>
        /\ pc = "done"
        /\ raised = attempts[Len(attempts)].outcome.error
        /\ output = <<>>
        /\ unioned = EmptyTable
        /\ stages = <<>>
        /\ Len(fetched) = ind_pos - 1
        /\ \A k \in 1..Len(dfs) : \E j \in 1..(ind_pos - 1) : dfs[k] = fetched[j]

\* the second of two indicators failed after the first had yielded rows
C38_Witness ==
    /\ FetchFailed
    /\ Len(indicators) = 2
    /\ ind_pos = 2
    /\ Len(fetched) = 1
    /\ ~IsEmpty(fetched[1])
    /\ raised \in OtherErrors
    /\ output = <<>>

\* both processes have returned from sync_all
BothSynced == \A p \in Procs : Local(p).pc = "done"

\* the entry _update_sync_history makes for the sync of process p
HistoryEntry(p) == Local(p).results

\* the process that wrote sync_history.yaml last
LastWriter == syncing.history_writes[Len(syncing.history_writes)]

\* the processes whose sync_all was asked for a vintage
VintageMakers == {p \in Procs : Local(p).create_vintage}

====
